---- MODULE Spec2Model ----
(***************************************************************************)
(* Model of the Telegram scheduler bot's message handler                   *)
(* (src/lambda/index.mjs): the date/time cascade of parseDateTime, the     *)
(* title extractor, the event assembler and the /duration command.         *)
(*                                                                         *)
(* A text is a sequence of one-character strings, so that every regular    *)
(* expression of the source is matched character by character.  A Date is  *)
(* the number of minutes since 2024-01-01 00:00 local time.                *)
(***************************************************************************)
EXTENDS Integers, Sequences, FiniteSets, TLC

\* ------------------------------------------------------------------ bounds
\* Longest text, in tokens of the vocabulary below.
MaxTokens == 2

\* ------------------------------------------------------------- characters
Digits == {"0", "1", "2", "3", "4", "5", "6", "7", "8", "9"}
Uppers == {"A", "B", "C", "D", "E", "F", "G", "H", "I", "J", "K", "L", "M",
           "N", "O", "P", "Q", "R", "S", "T", "U", "V", "W", "X", "Y", "Z"}
Lowers == {"a", "b", "c", "d", "e", "f", "g", "h", "i", "j", "k", "l", "m",
           "n", "o", "p", "q", "r", "s", "t", "u", "v", "w", "x", "y", "z"}

\* The /i flag of the regular expressions and String.prototype.toLowerCase.
LowerOf(c) ==
  CASE c = "A" -> "a" [] c = "B" -> "b" [] c = "C" -> "c" [] c = "D" -> "d"
    [] c = "E" -> "e" [] c = "F" -> "f" [] c = "G" -> "g" [] c = "H" -> "h"
    [] c = "I" -> "i" [] c = "J" -> "j" [] c = "K" -> "k" [] c = "L" -> "l"
    [] c = "M" -> "m" [] c = "N" -> "n" [] c = "O" -> "o" [] c = "P" -> "p"
    [] c = "Q" -> "q" [] c = "R" -> "r" [] c = "S" -> "s" [] c = "T" -> "t"
    [] c = "U" -> "u" [] c = "V" -> "v" [] c = "W" -> "w" [] c = "X" -> "x"
    [] c = "Y" -> "y" [] c = "Z" -> "z" [] OTHER -> c
LowerMap == [c \in Uppers |-> LowerOf(c)]
Lower(c) == IF c \in Uppers THEN LowerMap[c] ELSE c

toLowerCase(s) == [i \in 1..Len(s) |-> Lower(s[i])]

\* \d, \w and \s of the regular expressions.
IsDigit(c) == c \in Digits
WordChars == Digits \cup Uppers \cup Lowers \cup {"_"}
IsWordCh(c) == c \in WordChars
IsSpace(c) == c = " "

DigitVal(c) ==
  CASE c = "0" -> 0 [] c = "1" -> 1 [] c = "2" -> 2 [] c = "3" -> 3
    [] c = "4" -> 4 [] c = "5" -> 5 [] c = "6" -> 6 [] c = "7" -> 7
    [] c = "8" -> 8 [] c = "9" -> 9 [] OTHER -> 0

\* Number.toString of 0..99, and padStart(2, '0') of it.
DigitCh(d) == CHOOSE c \in Digits : DigitVal(c) = d
NumChars(n) ==
  IF n < 10 THEN <<DigitCh(n)>> ELSE <<DigitCh(n \div 10), DigitCh(n % 10)>>
Pad2(n) == IF n < 10 THEN <<"0">> \o NumChars(n) ELSE NumChars(n)
\* The four digits of a year.
Year4(y) == Pad2(y \div 100) \o Pad2(y % 100)

\* The character at position i (1-based), or "" outside the text.
At(s, i) == IF i \in 1..Len(s) THEN s[i] ELSE ""

\* s.substring(i-1, j): the characters i..j.
Sub(s, i, j) == IF j < i THEN << >> ELSE SubSeq(s, i, j)

\* \b between positions i-1 and i.
WB(s, i) == IsWordCh(At(s, i - 1)) # IsWordCh(At(s, i))

\* n digits start at position i.
DigitsAt(s, i, n) == \A k \in 0..(n - 1) : IsDigit(At(s, i + k))

\* The literal w (lower case) stands at position i, compared as /i does.
LitAt(s, i, w) == \A k \in 1..Len(w) : Lower(At(s, i + k - 1)) = w[k]

\* parseInt of the digits at i..i+n-1.
RECURSIVE ParseInt(_, _, _)
ParseInt(s, i, n) ==
  IF n = 0 THEN 0 ELSE ParseInt(s, i, n - 1) * 10 + DigitVal(At(s, i + n - 1))

\* The number of whitespace characters from position i on (\s*, greedy).
RECURSIVE SpacesAt(_, _)
SpacesAt(s, i) == IF IsSpace(At(s, i)) THEN 1 + SpacesAt(s, i + 1) ELSE 0

\* The number of digits from position i on (\d+, greedy).
RECURSIVE DigitRun(_, _)
DigitRun(s, i) == IF IsDigit(At(s, i)) THEN 1 + DigitRun(s, i + 1) ELSE 0

\* The least element of a set of positive numbers, 0 for the empty set.
Least(S) == IF S = {} THEN 0 ELSE CHOOSE i \in S : \A j \in S : i <= j
\* The leftmost position of s at which P holds, 0 when there is none.
FirstPos(s, P(_)) == Least({i \in 1..Len(s) : P(i)})

\* String.prototype.includes.
Includes(s, w) == \E i \in 1..(Len(s) - Len(w) + 1) : Sub(s, i, i + Len(w) - 1) = w

\* ------------------------------------------------------------------ dates
IsLeap(y) == (y % 4 = 0 /\ y % 100 # 0) \/ y % 400 = 0
DaysInMonth(y, m) ==
  IF m = 2 THEN (IF IsLeap(y) THEN 29 ELSE 28)
  ELSE IF m \in {4, 6, 9, 11} THEN 30 ELSE 31
DaysInYear(y) == IF IsLeap(y) THEN 366 ELSE 365

\* Days from the first of January of year y to the first of month m.
RECURSIVE DaysBeforeMonth(_, _)
DaysBeforeMonth(y, m) ==
  IF m <= 1 THEN 0 ELSE DaysBeforeMonth(y, m - 1) + DaysInMonth(y, m - 1)

\* Days from the epoch to the first of January of year y (y >= 2024).
RECURSIVE DaysBeforeYear(_)
DaysBeforeYear(y) ==
  IF y <= 2024 THEN 0 ELSE DaysBeforeYear(y - 1) + DaysInYear(y - 1)

\* new Date(year, monthIndex, day, hour, minute): the components overflow
\* into the next unit, as the Date constructor lets them.
NewDate(year, monthIndex, day, hour, minute) ==
  (DaysBeforeYear(year) + DaysBeforeMonth(year, monthIndex + 1) + (day - 1))
    * 1440 + hour * 60 + minute

RECURSIVE YearOfDay(_, _)
YearOfDay(n, y) == IF n < DaysInYear(y) THEN y ELSE YearOfDay(n - DaysInYear(y), y + 1)
RECURSIVE MonthOfDay(_, _, _)
MonthOfDay(n, y, m) ==
  IF n < DaysInMonth(y, m) THEN m ELSE MonthOfDay(n - DaysInMonth(y, m), y, m + 1)

DayNumber(t) == t \div 1440
getFullYear(t) == YearOfDay(DayNumber(t), 2024)
DayOfYear(t) == DayNumber(t) - DaysBeforeYear(getFullYear(t))
\* getMonth is 0-based, as in the source.
getMonth(t) == MonthOfDay(DayOfYear(t), getFullYear(t), 1) - 1
getDate(t) == DayOfYear(t) - DaysBeforeMonth(getFullYear(t), getMonth(t) + 1) + 1
getHours(t) == (t % 1440) \div 60
getMinutes(t) == t % 60

\* Date.prototype.setHours(hour, minute, 0, 0).
setHours(t, hour, minute) == DayNumber(t) * 1440 + hour * 60 + minute
\* t.setDate(t.getDate() + 1).
AddDay(t) == t + 1440

\* ---------------------------------------------------- regular expressions
\* Literals of the patterns, lower case.
L_am == <<"a", "m">>
L_pm == <<"p", "m">>
L_tmr == <<"t", "m", "r">>
L_tomorrow == <<"t", "o", "m", "o", "r", "r", "o", "w">>
L_today == <<"t", "o", "d", "a", "y">>

\* (am|pm) at position i; AmPmOf is the marker, lower-cased.
AmPmAt(s, i) == LitAt(s, i, L_am) \/ LitAt(s, i, L_pm)
AmPmOf(s, i) == IF LitAt(s, i, L_pm) THEN "pm" ELSE "am"

\* (st|nd|rd|th) at position i.
OrdinalAt(s, i) ==
  \/ LitAt(s, i, <<"s", "t">>) \/ LitAt(s, i, <<"n", "d">>)
  \/ LitAt(s, i, <<"r", "d">>) \/ LitAt(s, i, <<"t", "h">>)

\* The first k in 1..n with P(k), 0 when there is none: the order in which a
\* backtracking matcher tries the alternatives of a pattern.
FirstOf(n, P(_)) == Least({k \in 1..n : P(k)})

\* text.replace(/(\d{1,2})\.(\d{2})(am|pm)/gi, '$1:$2$3'): every dot that
\* follows a digit and is followed by two digits and am or pm becomes a colon.
DotToColon(s) ==
  [i \in 1..Len(s) |->
     IF s[i] = "." /\ IsDigit(At(s, i - 1)) /\ DigitsAt(s, i + 1, 2) /\ AmPmAt(s, i + 3)
     THEN ":" ELSE s[i]]

\* (\d{1,2}):?(\d{2})?(am|pm): the ways to read it, in the order a greedy
\* matcher tries them: <<digits of the hour, colon, digits of the minute>>.
ClockShapes ==
  << <<2, 1, 2>>, <<2, 1, 0>>, <<2, 0, 2>>, <<2, 0, 0>>,
     <<1, 1, 2>>, <<1, 1, 0>>, <<1, 0, 2>>, <<1, 0, 0>> >>
ClockLen(sh) == sh[1] + sh[2] + sh[3] + 2
ClockAt(s, i, sh) ==
  /\ DigitsAt(s, i, sh[1])
  /\ sh[2] = 1 => At(s, i + sh[1]) = ":"
  /\ DigitsAt(s, i + sh[1] + sh[2], sh[3])
  /\ AmPmAt(s, i + sh[1] + sh[2] + sh[3])

\* \s*[-]\s* from position j on: the position after it, 0 when it fails.
DashAfter(s, j) ==
  LET d == j + SpacesAt(s, j)
  IN IF At(s, d) = "-" THEN d + 1 + SpacesAt(s, d + 1) ELSE 0

\* /(\d{1,2}):?(\d{2})?(am|pm)\s*[-]\s*(\d{1,2}):?(\d{2})?(am|pm)/i at i:
\* the shape of the first time, 0 when the pattern does not match at i.
RangeShapeAt(s, i) ==
  IF ~IsDigit(At(s, i)) THEN 0 ELSE
  FirstOf(8, LAMBDA k :
    /\ ClockAt(s, i, ClockShapes[k])
    /\ LET j == DashAfter(s, i + ClockLen(ClockShapes[k]))
       IN j # 0 /\ \E k2 \in 1..8 : ClockAt(s, j, ClockShapes[k2]))

\* cleanedText.match(range): << >> or <<[pos, len, sh, pos2, sh2]>>, sh the
\* shape of the first time, pos2 and sh2 the place and shape of the second.
TimeRangeMatch(s) ==
  LET i == FirstPos(s, LAMBDA p : RangeShapeAt(s, p) # 0)
  IN IF i = 0 THEN << >>
     ELSE LET sh == ClockShapes[RangeShapeAt(s, i)]
              j == DashAfter(s, i + ClockLen(sh))
              sh2 == ClockShapes[FirstOf(8, LAMBDA k : ClockAt(s, j, ClockShapes[k]))]
          IN <<[pos |-> i, len |-> (j + ClockLen(sh2)) - i, sh |-> sh,
                pos2 |-> j, sh2 |-> sh2]>>

\* The start time `${m[1]}${m[2] ? ':' + m[2] : ''}${m[3]}` of a range.
StartTimeOf(s, m) ==
  LET i == m.pos
      n == m.sh[1]
      c == m.sh[2]
      mm == m.sh[3]
  IN Sub(s, i, i + n - 1)
       \o (IF mm > 0 THEN <<":">> \o Sub(s, i + n + c, i + n + c + mm - 1) ELSE << >>)
       \o Sub(s, i + n + c + mm, i + n + c + mm + 1)

\* The text handed to chrono: dots to colons, a range cut to its start.
CleanedText(text) ==
  LET c == DotToColon(text)
      m == TimeRangeMatch(c)
  IN IF m = << >> THEN c
     ELSE Sub(c, 1, m[1].pos - 1) \o StartTimeOf(c, m[1])
            \o Sub(c, m[1].pos + m[1].len, Len(c))

\* text.match(/(\d{1,2})(st|nd|rd|th)/i) is not null.
HasDayPattern(s) == \E i \in 1..Len(s) : IsDigit(s[i]) /\ OrdinalAt(s, i + 1)

\* text contains 'tmr' or 'tomorrow', lower-cased.
HasTomorrow(s) ==
  Includes(toLowerCase(s), L_tmr) \/ Includes(toLowerCase(s), L_tomorrow)

\* ------------------------------------------------ the fallback matchers
\* A match is the record {index, text, start: {date(), knownValues}} of the
\* source, flattened: index (0-based), text, date and kv (knownValues, a
\* function whose domain is the set of the values that are known).
KnownValues(year, month, day, hour, minute) ==
  [year |-> year, month |-> month, day |-> day, hour |-> hour, minute |-> minute]

\* A conversion that would leave 12am at twelve.
Hour24NoMidnight(hour, ampm) ==
  IF ampm = "pm" /\ hour # 12 THEN hour + 12 ELSE hour

\* Convert to 24-hour format.
Hour24(hour, ampm) ==
  LET h1 == IF ampm = "pm" /\ hour # 12 THEN hour + 12 ELSE hour
  IN IF ampm = "am" /\ hour = 12 THEN 0 ELSE h1

\* /\b(\d{1,2}):?(\d{2})\b/: <<digits of the hour, colon>> in matching order.
MilitaryShapes == << <<2, 1>>, <<2, 0>>, <<1, 1>>, <<1, 0>> >>
MilitaryAt(s, i, sh) ==
  /\ WB(s, i)
  /\ DigitsAt(s, i, sh[1])
  /\ sh[2] = 1 => At(s, i + sh[1]) = ":"
  /\ DigitsAt(s, i + sh[1] + sh[2], 2)
  /\ WB(s, i + sh[1] + sh[2] + 2)
MilitaryShapeAt(s, i) ==
  IF ~IsDigit(At(s, i)) THEN 0 ELSE FirstOf(4, LAMBDA k : MilitaryAt(s, i, MilitaryShapes[k]))

\* Only process if it looks like a valid time (hour 0-23, minutes 0-59).
MilitaryValid(hour, minutes) == hour >= 0 /\ hour <= 23 /\ minutes >= 0 /\ minutes <= 59

\* Fallback for 24-hour time format like "1630", "16:30", "0900".
MilitaryTimeMatch(text, now) ==
  LET i == FirstPos(text, LAMBDA p : MilitaryShapeAt(text, p) # 0)
  IN IF i = 0 THEN << >>
     ELSE LET sh == MilitaryShapes[MilitaryShapeAt(text, i)]
              hour == ParseInt(text, i, sh[1])
              minutes == ParseInt(text, i + sh[1] + sh[2], 2)
              day0 == IF HasTomorrow(text) THEN AddDay(now) ELSE now
              targetDate == setHours(day0, hour, minutes)
          IN IF MilitaryValid(hour, minutes)
             THEN <<[index |-> i - 1,
                     text |-> Sub(text, i, i + sh[1] + sh[2] + 1),
                     date |-> targetDate,
                     kv |-> KnownValues(getFullYear(targetDate), getMonth(targetDate) + 1,
                                        getDate(targetDate), hour, minutes)]>>
             ELSE << >>

\* /(\d{1,2})\.(\d{2})(am|pm)/i at i with an hour of n digits.
DotAt(s, i, n) ==
  DigitsAt(s, i, n) /\ At(s, i + n) = "." /\ DigitsAt(s, i + n + 1, 2) /\ AmPmAt(s, i + n + 3)
DotDigitsAt(s, i) == IF DotAt(s, i, 2) THEN 2 ELSE IF DotAt(s, i, 1) THEN 1 ELSE 0

\* Fallback for dot notation times like "3.30pm".
DotTimeMatch(text, now) ==
  LET i == FirstPos(text, LAMBDA p : DotDigitsAt(text, p) # 0)
  IN IF i = 0 THEN << >>
     ELSE LET n == DotDigitsAt(text, i)
              hour == ParseInt(text, i, n)
              minutes == ParseInt(text, i + n + 1, 2)
              hour24 == Hour24(hour, AmPmOf(text, i + n + 3))
              day0 == IF HasTomorrow(text) THEN AddDay(now) ELSE now
              targetDate == setHours(day0, hour24, minutes)
          IN <<[index |-> i - 1,
                text |-> Sub(text, i, i + n + 4),
                date |-> targetDate,
                kv |-> KnownValues(getFullYear(targetDate), getMonth(targetDate) + 1,
                                   getDate(targetDate), hour24, minutes)]>>

\* /(\d{1,2})(st|nd|rd|th)\s+(\d{1,2})([:.:]\d{2})?(am|pm)/i:
\* <<digits of the day, digits of the hour, length of the minute group>>.
DayTimeShapes ==
  << <<2, 2, 3>>, <<2, 2, 0>>, <<2, 1, 3>>, <<2, 1, 0>>,
     <<1, 2, 3>>, <<1, 2, 0>>, <<1, 1, 3>>, <<1, 1, 0>> >>
DayTimeAtSep(s, i, sh, seps) ==
  LET sp == SpacesAt(s, i + sh[1] + 2)
      h == i + sh[1] + 2 + sp
  IN /\ DigitsAt(s, i, sh[1])
     /\ OrdinalAt(s, i + sh[1])
     /\ sp >= 1
     /\ DigitsAt(s, h, sh[2])
     /\ sh[3] = 3 => (At(s, h + sh[2]) \in seps /\ DigitsAt(s, h + sh[2] + 1, 2))
     /\ AmPmAt(s, h + sh[2] + sh[3])
DayTimeAt(s, i, sh) == DayTimeAtSep(s, i, sh, {":", "."})
DayTimeShapeAt(s, i) ==
  IF ~IsDigit(At(s, i)) THEN 0 ELSE FirstOf(8, LAMBDA k : DayTimeAt(s, i, DayTimeShapes[k]))

\* Fallback for day patterns like "29th 5am".
DayTimeMatch(text, now) ==
  LET i == FirstPos(text, LAMBDA p : DayTimeShapeAt(text, p) # 0)
  IN IF i = 0 THEN << >>
     ELSE LET sh == DayTimeShapes[DayTimeShapeAt(text, i)]
              h == i + sh[1] + 2 + SpacesAt(text, i + sh[1] + 2)
              day == ParseInt(text, i, sh[1])
              hour == ParseInt(text, h, sh[2])
              ampm == AmPmOf(text, h + sh[2] + sh[3])
              minutes == IF sh[3] = 3 THEN ParseInt(text, h + sh[2] + 1, 2) ELSE 0
              hour24 == Hour24(hour, ampm)
              currentMonth == getMonth(now)
              currentYear == getFullYear(now)
              targetDate == NewDate(currentYear, currentMonth, day, hour24, minutes)
          IN <<[index |-> i - 1,
                text |-> Sub(text, i, h + sh[2] + sh[3] + 1),
                date |-> targetDate,
                kv |-> KnownValues(currentYear, currentMonth + 1, day, hour24, minutes)]>>

\* /(\d{1,2})(st|nd|rd|th)(?!\s*\d)/i at i with a day of n digits.
DayOnlyAt(s, i, n) ==
  /\ DigitsAt(s, i, n)
  /\ OrdinalAt(s, i + n)
  /\ ~IsDigit(At(s, i + n + 2 + SpacesAt(s, i + n + 2)))
DayOnlyDigitsAt(s, i) == IF DayOnlyAt(s, i, 2) THEN 2 ELSE IF DayOnlyAt(s, i, 1) THEN 1 ELSE 0

\* The day captured by the day-only pattern, 0 when it does not match.
DayOnlyDay(text) ==
  LET i == FirstPos(text, LAMBDA p : DayOnlyDigitsAt(text, p) # 0)
  IN IF i = 0 THEN 0 ELSE ParseInt(text, i, DayOnlyDigitsAt(text, i))
DayOnlyMatches(text) == FirstPos(text, LAMBDA p : DayOnlyDigitsAt(text, p) # 0) # 0

\* (min|mins|minute|minutes|hour|hours|hr|hrs)\b, in the order of the pattern.
UnitWords ==
  << <<"m", "i", "n">>, <<"m", "i", "n", "s">>,
     <<"m", "i", "n", "u", "t", "e">>, <<"m", "i", "n", "u", "t", "e", "s">>,
     <<"h", "o", "u", "r">>, <<"h", "o", "u", "r", "s">>,
     <<"h", "r">>, <<"h", "r", "s">> >>
UnitAt(s, j) ==
  FirstOf(8, LAMBDA k : LitAt(s, j, UnitWords[k]) /\ WB(s, j + Len(UnitWords[k])))

\* /(\d+)\s*(unit)\b/i at i: the whole run of digits, spaces, a unit.
RelativeAt(s, i) ==
  /\ IsDigit(At(s, i))
  /\ UnitAt(s, i + DigitRun(s, i) + SpacesAt(s, i + DigitRun(s, i))) # 0

\* An offset that would take every unit for minutes.
RelativeMinutesFlat(amount, unit) == amount

\* unit.startsWith('min'): minutes; unit.startsWith('h'): hours.
RelativeMinutes(amount, unit) ==
  IF LitAt(unit, 1, <<"m", "i", "n">>) THEN amount
  ELSE IF LitAt(unit, 1, <<"h">>) THEN amount * 60 ELSE 0

\* Fallback for relative time patterns like "1 minute", "30 min", "50mins".
RelativeTimeMatch(text, now) ==
  LET i == FirstPos(text, LAMBDA p : RelativeAt(text, p))
  IN IF i = 0 THEN << >>
     ELSE LET n == DigitRun(text, i)
              j == i + n + SpacesAt(text, i + n)
              amount == ParseInt(text, i, n)
              unit == UnitWords[UnitAt(text, j)]
              minutes == RelativeMinutes(amount, unit)
              targetDate == now + minutes
          IN <<[index |-> i - 1,
                text |-> Sub(text, i, j + Len(unit) - 1),
                date |-> targetDate,
                kv |-> KnownValues(getFullYear(targetDate), getMonth(targetDate) + 1,
                                   getDate(targetDate), getHours(targetDate),
                                   getMinutes(targetDate))]>>

\* The weekdays of the standalone-weekday fallback, in the order it tries
\* them; WeekdayNumber is Date.prototype.getDay of each (0 is Sunday).
Weekdays ==
  << <<"m", "o", "n", "d", "a", "y">>, <<"t", "u", "e", "s", "d", "a", "y">>,
     <<"w", "e", "d", "n", "e", "s", "d", "a", "y">>,
     <<"t", "h", "u", "r", "s", "d", "a", "y">>, <<"f", "r", "i", "d", "a", "y">>,
     <<"s", "a", "t", "u", "r", "d", "a", "y">>, <<"s", "u", "n", "d", "a", "y">> >>
WeekdayNumber(k) == k % 7
\* 2024-01-01 is a Monday.
getDay(t) == (DayNumber(t) + 1) % 7

\* The first weekday of the list that lowerText includes, 0 when none.
FirstWeekday(text) == FirstOf(7, LAMBDA k : Includes(toLowerCase(text), Weekdays[k]))

\* ------------------------------------------------------------ chrono-node
\* chrono.parse is a library outside the repository.  What it returns is an
\* input of the model, drawn from the results the library can give for the
\* text: a clock time with am or pm is always recognised; "tmr", "tomorrow",
\* "today" and weekday names give the date; for an ordinal day ("29th") and a
\* 24-hour time the library may or may not recognise the fragment.  A result
\* without a known hour is a date at 12:00, the hour chrono implies.

\* A date-only result and a timed result, as chrono builds them.
ChronoDateResult(t, kv) == <<[index |-> 0, text |-> << >>, date |-> setHours(t, 12, 0), kv |-> kv]>>
ChronoTimedResult(t, hour, minute, kv) ==
  <<[index |-> 0, text |-> << >>, date |-> setHours(t, hour, minute),
     kv |-> kv @@ [hour |-> hour, minute |-> minute]]>>
EmptyKv == [x \in {} |-> 0]
DateKv(t) == [day |-> getDate(t), month |-> getMonth(t) + 1]

\* <<hour digits, minute group length, spaces>>: "3pm", "3:30pm", "3 pm".
ChronoClockAt(s, i, n, mm) ==
  /\ ~IsWordCh(At(s, i - 1))
  /\ DigitsAt(s, i, n)
  /\ mm = 3 => (At(s, i + n) = ":" /\ DigitsAt(s, i + n + 1, 2))
  /\ AmPmAt(s, i + n + mm + SpacesAt(s, i + n + mm))
  /\ ~IsWordCh(At(s, i + n + mm + SpacesAt(s, i + n + mm) + 2))
  /\ ParseInt(s, i, n) \in 1..12
  /\ (mm = 3 => ParseInt(s, i + n + 1, 2) <= 59)
ChronoClockShapes == << <<2, 3>>, <<2, 0>>, <<1, 3>>, <<1, 0>> >>
ChronoClockShapeAt(s, i) ==
  IF ~IsDigit(At(s, i)) THEN 0 ELSE
  FirstOf(4, LAMBDA k : ChronoClockAt(s, i, ChronoClockShapes[k][1], ChronoClockShapes[k][2]))

\* The times chrono can read in the text: << >> stands for no time.
ChronoTimes(s) ==
  LET i == FirstPos(s, LAMBDA p : ChronoClockShapeAt(s, p) # 0)
      m == FirstPos(s, LAMBDA p : MilitaryShapeAt(s, p) # 0)
  IN IF i # 0
     THEN LET sh == ChronoClockShapes[ChronoClockShapeAt(s, i)]
              j == i + sh[1] + sh[2] + SpacesAt(s, i + sh[1] + sh[2])
          IN {<<Hour24(ParseInt(s, i, sh[1]), AmPmOf(s, j)),
                IF sh[2] = 3 THEN ParseInt(s, i + sh[1] + 1, 2) ELSE 0>>}
     ELSE {<< >>} \cup
          (IF m = 0 THEN {}
           ELSE LET sh == MilitaryShapes[MilitaryShapeAt(s, m)]
                    hour == ParseInt(s, m, sh[1])
                    minutes == ParseInt(s, m + sh[1] + sh[2], 2)
                IN IF MilitaryValid(hour, minutes) THEN {<<hour, minutes>>} ELSE {})

\* The date of the weekday numbered w: the next one on or after now, or the
\* one of the week of now (which starts on Sunday).
WeekdayDates(now, w) ==
  {now + ((w - getDay(now) + 7) % 7) * 1440, now + (w - getDay(now)) * 1440}

\* A weekday written without "this", "next" or "last" is the one closest to
\* now, which is a past day when it is four days or more ahead: the
\* forwardDate option of chrono is not set.
ClosestWeekday(now, w) ==
  LET forward == (w - getDay(now) + 7) % 7
  IN IF 2 * forward < 7 THEN now + forward * 1440 ELSE now + (forward - 7) * 1440
BareWeekdayDates(now, w) == WeekdayDates(now, w) \cup {ClosestWeekday(now, w)}

\* The dates chrono can read in the text, each with the values it then
\* knows: << >> stands for no date.
ChronoDates(s, now) ==
  IF HasTomorrow(s) THEN {<<AddDay(now), DateKv(AddDay(now))>>}
  ELSE IF FirstWeekday(s) # 0
       THEN {<<d, [weekday |-> WeekdayNumber(FirstWeekday(s))]>> :
               d \in BareWeekdayDates(now, WeekdayNumber(FirstWeekday(s)))}
     ELSE IF Includes(toLowerCase(s), L_today) THEN {<<now, DateKv(now)>>}
     ELSE IF HasDayPattern(s)
       THEN {<< >>} \cup
            (LET i == FirstPos(s, LAMBDA p : DigitsAt(s, p, 1) /\ ~IsDigit(At(s, p - 1))
                                             /\ OrdinalAt(s, p + DigitRun(s, p)))
                 day == IF i = 0 THEN 0 ELSE ParseInt(s, i, DigitRun(s, i))
                 t == NewDate(getFullYear(now), getMonth(now), day, 0, 0)
             IN IF day \in 1..DaysInMonth(getFullYear(now), getMonth(now) + 1)
                THEN {<<t, DateKv(t)>>} ELSE {})
     ELSE {<< >>}

\* chrono.parse(cleanedText, now, {timezone}): the arrays it can return.
ChronoParse(s, now) ==
  {IF tm = << >>
     THEN (IF d = << >> THEN << >> ELSE ChronoDateResult(d[1], d[2]))
     ELSE (IF d = << >> THEN ChronoTimedResult(now, tm[1], tm[2], EmptyKv)
           ELSE ChronoTimedResult(d[1], tm[1], tm[2], d[2])) :
   tm \in ChronoTimes(s), d \in ChronoDates(s, now)}

\* chrono.parse(`${currentMonth} ${day}, ${currentYear}`): a day of 1..31 is
\* read as written (a day past the end of the month overflows, as in Date);
\* another day is not read, or only the month and the year are.
ChronoParseMonthDay(day, now) ==
  LET y == getFullYear(now)
      m == getMonth(now)
  IN IF day \in 1..31
     THEN {ChronoDateResult(NewDate(y, m, day, 0, 0), [year |-> y, month |-> m + 1, day |-> day])}
     ELSE {<< >>, ChronoDateResult(NewDate(y, m, 1, 0, 0), [year |-> y, month |-> m + 1])}

\* chrono.parse(`this ${day}`): the weekday of this week or the next one.
ChronoParseThisWeekday(k, now) ==
  {ChronoDateResult(d, [weekday |-> WeekdayNumber(k)]) : d \in WeekdayDates(now, WeekdayNumber(k))}

\* ------------------------------------------------------------ extractTitle
\* The length of the match of pattern pid of extractTitle at position i of
\* s, 0 when it does not match there.  Patterns 1..7 are the date/time
\* patterns in the order of the source; 8 is /\s+/g and 9 the common words.
TitleDayTimeLen(s, i) ==
  LET k == FirstOf(8, LAMBDA j : DayTimeAtSep(s, i, DayTimeShapes[j], {":"}))
  IN IF k = 0 THEN 0
     ELSE LET sh == DayTimeShapes[k]
          IN sh[1] + 2 + SpacesAt(s, i + sh[1] + 2) + sh[2] + sh[3] + 2

TitleDayLen(s, i) ==
  IF DigitsAt(s, i, 2) /\ OrdinalAt(s, i + 2) THEN 4
  ELSE IF DigitsAt(s, i, 1) /\ OrdinalAt(s, i + 1) THEN 3 ELSE 0

\* \b(w1|w2|...)\b: the first word of ws that stands at i between boundaries.
WordLen(s, i, ws) ==
  LET k == FirstOf(Len(ws), LAMBDA j : LitAt(s, i, ws[j]) /\ WB(s, i + Len(ws[j])))
  IN IF WB(s, i) /\ k # 0 THEN Len(ws[k]) ELSE 0

RelativeDayWords == <<L_tomorrow, L_tmr, L_today>>
CommonWords == << <<"a", "t">>, <<"o", "n">>, <<"t", "h", "e">>, <<"a">>, <<"a", "n">> >>

\* \b\d{1,2}([:.:]\d{2})?(am|pm)\b
StandaloneShapes == << <<2, 3>>, <<2, 0>>, <<1, 3>>, <<1, 0>> >>
StandaloneAt(s, i, sh) ==
  /\ WB(s, i)
  /\ DigitsAt(s, i, sh[1])
  /\ sh[2] = 3 => (At(s, i + sh[1]) \in {":", "."} /\ DigitsAt(s, i + sh[1] + 1, 2))
  /\ AmPmAt(s, i + sh[1] + sh[2])
  /\ WB(s, i + sh[1] + sh[2] + 2)
TitleTimeLen(s, i) ==
  LET k == FirstOf(4, LAMBDA j : StandaloneAt(s, i, StandaloneShapes[j]))
  IN IF k = 0 THEN 0 ELSE StandaloneShapes[k][1] + StandaloneShapes[k][2] + 2

\* \b\d+\s*(unit)\b
TitleRelativeLen(s, i) ==
  LET n == DigitRun(s, i)
      j == i + n + SpacesAt(s, i + n)
  IN IF WB(s, i) /\ n > 0 /\ UnitAt(s, j) # 0
     THEN (j - i) + Len(UnitWords[UnitAt(s, j)]) ELSE 0

\* \d{1,2}[.:]?\d{0,2}(am|pm): <<hour digits, separator, minute digits>>.
LooseShapes ==
  << <<2, 1, 2>>, <<2, 1, 1>>, <<2, 1, 0>>, <<2, 0, 2>>, <<2, 0, 1>>, <<2, 0, 0>>,
     <<1, 1, 2>>, <<1, 1, 1>>, <<1, 1, 0>>, <<1, 0, 2>>, <<1, 0, 1>>, <<1, 0, 0>> >>
LooseAt(s, i, sh) ==
  /\ DigitsAt(s, i, sh[1])
  /\ sh[2] = 1 => At(s, i + sh[1]) \in {".", ":"}
  /\ DigitsAt(s, i + sh[1] + sh[2], sh[3])
  /\ AmPmAt(s, i + sh[1] + sh[2] + sh[3])
TitleRangeLen(s, i) ==
  LET k == FirstOf(12, LAMBDA a :
             /\ LooseAt(s, i, LooseShapes[a])
             /\ LET j == DashAfter(s, i + ClockLen(LooseShapes[a]))
                IN j # 0 /\ \E b \in 1..12 : LooseAt(s, j, LooseShapes[b]))
  IN IF k = 0 THEN 0
     ELSE LET j == DashAfter(s, i + ClockLen(LooseShapes[k]))
              b == FirstOf(12, LAMBDA c : LooseAt(s, j, LooseShapes[c]))
          IN (j + ClockLen(LooseShapes[b])) - i

\* Patterns 1, 2, 5, 6 and 7 begin with a digit, 3, 4 and 9 at a boundary.
TitleMatchLen(pid, s, i) ==
  IF pid \in {1, 2, 5, 6, 7} /\ ~IsDigit(At(s, i)) THEN 0
  ELSE IF pid \in {3, 4, 9} /\ ~WB(s, i) THEN 0
  ELSE CASE pid = 1 -> TitleDayTimeLen(s, i)
         [] pid = 2 -> TitleDayLen(s, i)
         [] pid = 3 -> WordLen(s, i, Weekdays)
         [] pid = 4 -> WordLen(s, i, RelativeDayWords)
         [] pid = 5 -> TitleTimeLen(s, i)
         [] pid = 6 -> TitleRelativeLen(s, i)
         [] pid = 7 -> TitleRangeLen(s, i)
         [] pid = 8 -> SpacesAt(s, i)
         [] pid = 9 -> WordLen(s, i, CommonWords)

\* s.replace(pattern, ' ') with the g flag, from position i on.
RECURSIVE ReplaceFrom(_, _, _)
ReplaceFrom(pid, s, i) ==
  IF i > Len(s) THEN << >>
  ELSE LET n == TitleMatchLen(pid, s, i)
       IN IF n > 0 THEN <<" ">> \o ReplaceFrom(pid, s, i + n)
          ELSE <<s[i]>> \o ReplaceFrom(pid, s, i + 1)
ReplaceAll(pid, s) == ReplaceFrom(pid, s, 1)

\* patterns.forEach(pattern => cleanText = cleanText.replace(pattern, ' ')).
RECURSIVE RemovePatterns(_, _)
RemovePatterns(s, pid) ==
  IF pid > 7 THEN s ELSE RemovePatterns(ReplaceAll(pid, s), pid + 1)

\* String.prototype.trim.
RECURSIVE TrimLeft(_)
TrimLeft(s) == IF s # << >> /\ IsSpace(Head(s)) THEN TrimLeft(Tail(s)) ELSE s
RECURSIVE TrimRight(_)
TrimRight(s) ==
  IF s # << >> /\ IsSpace(s[Len(s)]) THEN TrimRight(Sub(s, 1, Len(s) - 1)) ELSE s
Trim(s) == TrimRight(TrimLeft(s))

T_Event == <<"E", "v", "e", "n", "t">>

\* A title extraction without the fallback title.
extractTitleNoFallback(text) ==
  Trim(ReplaceAll(9, ReplaceAll(8, RemovePatterns(text, 1))))

\* extractTitle(text, dateMatch) for a dateMatch that is not null.
extractTitle(text) ==
  LET cleanText == Trim(ReplaceAll(9, ReplaceAll(8, RemovePatterns(text, 1))))
  IN IF cleanText = << >> \/ Len(cleanText) < 2 THEN T_Event ELSE cleanText

\* ------------------------------------------------------------- the inputs
\* The vocabulary of the texts: title words, ordinal days, clock times in
\* each notation (valid and not), time ranges, relative days and offsets.
Tokens ==
  {<<"s", "y", "n", "c">>,
   <<"a", "t">>,
   <<"2", "9", "t", "h">>,
   <<"3", "2", "n", "d">>,
   <<"5", "a", "m">>,
   <<"3", ".", "3", "0", "p", "m">>,
   <<"3", ".", "7", "5", "p", "m">>,
   <<"1", "6", "3", "0">>,
   <<"2", "4", "6", "0">>,
   <<"3", ":", "3", "0", "p", "m", "-", "4", ":", "3", "0", "p", "m">>,
   <<"3", "p", "m", "-", "4", ".", "3", "0", "p", "m">>,
   <<"t", "m", "r">>,
   <<"F", "r", "i", "d", "a", "y">>,
   <<"3", "0", " ", "m", "i", "n">>}

\* The texts of at most n tokens, joined by single spaces.
RECURSIVE TextsOf(_)
TextsOf(n) ==
  IF n <= 1 THEN Tokens
  ELSE TextsOf(n - 1) \cup {t \o <<" ">> \o k : t \in TextsOf(n - 1), k \in Tokens}
Texts == TextsOf(MaxTokens)

\* The reference time: Monday 2024-10-21 09:00.
Nows == {NewDate(2024, 9, 21, 9, 0)}

\* The arguments of /duration.
DurationArgs == {<<"9", "0">>, <<"0">>, <<"a", "b", "c">>}

\* ----------------------------------------------------------- preferences
\* The item of the user in the preference table: << >> when there is none.
L_now == <<"n", "o", "w">>
T_Singapore ==
  <<"A", "s", "i", "a", "/", "S", "i", "n", "g", "a", "p", "o", "r", "e">>
DefaultPrefs ==
  [timezone |-> T_Singapore, duration_min |-> 60, bot_admins |-> {},
   blacklist |-> {L_now}, whitelist |-> {}]
\* An attribute the item lacks, and an empty timezone, read as the default.
getUserPrefs(item) ==
  IF item = << >> THEN DefaultPrefs
  ELSE [timezone |-> IF item[1].timezone # << >> THEN item[1].timezone ELSE T_Singapore,
        duration_min |-> item[1].duration_min,
        bot_admins |-> item[1].bot_admins,
        blacklist |-> item[1].blacklist,
        whitelist |-> item[1].whitelist]
\* A read that fails is caught and gives the defaults.
ReadPrefs(item) == {getUserPrefs(item), DefaultPrefs}
\* An empty blacklist is stored as the default one; DynamoDB has no empty set.
saveUserPrefs(p) ==
  <<[timezone |-> p.timezone,
     duration_min |-> p.duration_min,
     bot_admins |-> p.bot_admins,
     blacklist |-> IF p.blacklist # {} THEN p.blacklist ELSE {L_now},
     whitelist |-> p.whitelist]>>

\* isNaN(parts[1]) for an argument of digits, '-' and letters: it is a number
\* when it is empty or an optional sign followed by digits only.
SignLen(a) == IF At(a, 1) \in {"-", "+"} THEN 1 ELSE 0
jsIsNaN(a) ==
  ~(a = << >> \/ (Len(a) > SignLen(a) /\ DigitRun(a, SignLen(a) + 1) = Len(a) - SignLen(a)))
\* parseInt(parts[1]) of an argument that has digits after its sign.
jsParseInt(a) ==
  LET n == ParseInt(a, SignLen(a) + 1, DigitRun(a, SignLen(a) + 1))
  IN IF At(a, 1) = "-" THEN 0 - n ELSE n

\* ------------------------------------------- specific date patterns only
\* The parseDateTime that looks for specific date patterns only: a day with
\* an ordinal suffix, then a day with a month name, each with an optional
\* time, and no other fallback.

\* (?:\s+(\d{1,2})(?:[:.](\d{2}))?(am|pm)?)? from position j on: every part
\* is optional and nothing follows, so each quantifier keeps what it takes.
TimeSuffix(s, j) ==
  LET sp == SpacesAt(s, j)
      h == j + sp
      n == IF DigitsAt(s, h, 2) THEN 2 ELSE 1
      mm == IF At(s, h + n) \in {":", "."} /\ DigitsAt(s, h + n + 1, 2) THEN 3 ELSE 0
      ap == IF AmPmAt(s, h + n + mm) THEN 2 ELSE 0
  IN IF sp = 0 \/ ~IsDigit(At(s, h))
     THEN [len |-> 0, hasHour |-> FALSE, hour |-> 0, minutes |-> 0, ampm |-> "none"]
     ELSE [len |-> sp + n + mm + ap,
           hasHour |-> TRUE,
           hour |-> ParseInt(s, h, n),
           minutes |-> IF mm = 3 THEN ParseInt(s, h + n + 1, 2) ELSE 0,
           ampm |-> IF ap = 2 THEN AmPmOf(s, h + n + mm) ELSE "none"]

\* targetDate and knownValues of a specific date pattern: hour and minute
\* are undefined when no hour was written.
SpecificMatch(text, i, len, year, monthIndex, day, ts) ==
  LET hour24 == Hour24(ts.hour, ts.ampm)
  IN <<[index |-> i - 1,
        text |-> Sub(text, i, i + len + ts.len - 1),
        date |-> IF ts.hasHour
                 THEN NewDate(year, monthIndex, day, hour24, ts.minutes)
                 ELSE NewDate(year, monthIndex, day, 0, 0),
        kv |-> IF ts.hasHour
               THEN KnownValues(year, monthIndex + 1, day, hour24, ts.minutes)
               ELSE [year |-> year, month |-> monthIndex + 1, day |-> day]]>>

\* /(\d{1,2})(st|nd|rd|th)/i at i: the number of digits of the day.
DayPatternDigitsAt(s, i) ==
  IF DigitsAt(s, i, 2) /\ OrdinalAt(s, i + 2) THEN 2
  ELSE IF DigitsAt(s, i, 1) /\ OrdinalAt(s, i + 1) THEN 1 ELSE 0

\* Pattern 1: "28th" or "28th 5pm", in the current month and year.
DayPatternMatch(text, now) ==
  LET i == FirstPos(text, LAMBDA p : DayPatternDigitsAt(text, p) # 0)
      n == DayPatternDigitsAt(text, i)
      day == ParseInt(text, i, n)
  IN IF i = 0 \/ ~(day >= 1 /\ day <= 31) THEN << >>
     ELSE SpecificMatch(text, i, n + 2, getFullYear(now), getMonth(now), day,
                        TimeSuffix(text, i + n + 2))

\* (Jan|Feb|...|Dec|January|...|December), in the order of the pattern.
MonthNames ==
  << <<"j", "a", "n">>, <<"f", "e", "b">>, <<"m", "a", "r">>, <<"a", "p", "r">>,
     <<"m", "a", "y">>, <<"j", "u", "n">>, <<"j", "u", "l">>, <<"a", "u", "g">>,
     <<"s", "e", "p">>, <<"o", "c", "t">>, <<"n", "o", "v">>, <<"d", "e", "c">>,
     <<"j", "a", "n", "u", "a", "r", "y">>, <<"f", "e", "b", "r", "u", "a", "r", "y">>,
     <<"m", "a", "r", "c", "h">>, <<"a", "p", "r", "i", "l">>, <<"m", "a", "y">>,
     <<"j", "u", "n", "e">>, <<"j", "u", "l", "y">>, <<"a", "u", "g", "u", "s", "t">>,
     <<"s", "e", "p", "t", "e", "m", "b", "e", "r">>, <<"o", "c", "t", "o", "b", "e", "r">>,
     <<"n", "o", "v", "e", "m", "b", "e", "r">>, <<"d", "e", "c", "e", "m", "b", "e", "r">> >>

\* monthMap: the month index 0..11 of the k-th name.
monthMap(k) == (k - 1) % 12

\* The first name of the pattern that stands at j; with a day to follow,
\* the first one that \s+(\d{1,2}) can follow.
MonthNameAt(s, j, dayFollows) ==
  FirstOf(24, LAMBDA k :
    /\ LitAt(s, j, MonthNames[k])
    /\ dayFollows =>
         /\ SpacesAt(s, j + Len(MonthNames[k])) > 0
         /\ IsDigit(At(s, j + Len(MonthNames[k]) + SpacesAt(s, j + Len(MonthNames[k])))))

\* \b(\d{1,2})\s+(name) at i: the number of digits of the day, 0 for none.
DayMonthDigitsAt(s, i) ==
  LET ok(n) == /\ DigitsAt(s, i, n)
               /\ SpacesAt(s, i + n) > 0
               /\ MonthNameAt(s, i + n + SpacesAt(s, i + n), FALSE) # 0
  IN IF ~WB(s, i) THEN 0 ELSE IF ok(2) THEN 2 ELSE IF ok(1) THEN 1 ELSE 0

\* \b(name)\s+(\d{1,2}) at i: the name, 0 for none.
MonthDayNameAt(s, i) == IF WB(s, i) THEN MonthNameAt(s, i, TRUE) ELSE 0

\* Pattern 2: "28 Oct" or "Oct 28" or "28 October", in the current year.
MonthDayMatch(text, now) ==
  LET i == FirstPos(text, LAMBDA p :
             DayMonthDigitsAt(text, p) # 0 \/ MonthDayNameAt(text, p) # 0)
      dayFirst == DayMonthDigitsAt(text, i) # 0
      \* day first: digits, spaces, name
      n1 == DayMonthDigitsAt(text, i)
      m1 == i + n1 + SpacesAt(text, i + n1)
      k1 == MonthNameAt(text, m1, FALSE)
      \* name first: name, spaces, digits
      k2 == MonthDayNameAt(text, i)
      d2 == i + Len(MonthNames[k2]) + SpacesAt(text, i + Len(MonthNames[k2]))
      n2 == IF DigitsAt(text, d2, 2) THEN 2 ELSE 1
      day == IF dayFirst THEN ParseInt(text, i, n1) ELSE ParseInt(text, d2, n2)
      month == IF dayFirst THEN monthMap(k1) ELSE monthMap(k2)
      len == IF dayFirst THEN m1 + Len(MonthNames[k1]) - i ELSE d2 + n2 - i
  IN IF i = 0 \/ ~(day >= 1 /\ day <= 31) THEN << >>
     ELSE SpecificMatch(text, i, len, getFullYear(now), month, day,
                        TimeSuffix(text, i + len))

\* -------------------------------------------------------------- the state
\* A private chat: the sender is the user the preferences belong to.
PrivateChat == [type |-> "private", from |-> "u1", member |-> "member", reply |-> << >>]

VARIABLES
  pc,         \* where the handler stands: idle, chrono, military, ..., done
  text,       \* message.text
  now,        \* new Date() of parseDateTime
  results,    \* the results array of parseDateTime
  dateMatch,  \* what parseDateTime returned: << >> for null, or <<match>>
  prefs,      \* the preferences handleMessage read
  db,         \* the preference table's item of the user
  event,      \* << >> or <<the event handleMessage assembled>>
  sent,       \* the messages and documents sent while handling the message
  update,     \* the kind of body the handler was invoked with
  exported,   \* << >> or <<what the two exporters were given and built>>
  response,   \* << >> or <<the response the handler returned last>>
  prev,       \* << >> or <<the text, clock and match of an earlier invocation>>
  chat,       \* message.chat, message.from and what the platform knows of them
  calls,      \* the invocations that handle a command at the same time
  failed      \* the calls that failed in this invocation: read, write, send, ...

vars ==
  <<pc, text, now, results, dateMatch, prefs, db, event, sent, update, exported,
    response, prev, chat, calls, failed>>

Init ==
  /\ pc = "idle"
  /\ text = << >>
  /\ now = 0
  /\ results = << >>
  /\ dateMatch = << >>
  /\ prefs = DefaultPrefs
  /\ db = << >>
  /\ event = << >>
  /\ sent = << >>
  /\ update = "none"
  /\ exported = << >>
  /\ response = << >>
  /\ prev = << >>
  /\ chat = PrivateChat
  /\ calls = << >>
  /\ failed = {}

Ready == pc = "idle"

\* The texts the default blacklist filters.
FilteredTexts == {L_now, <<"5", "a", "m", " ", "n", "o", "w">>}

\* A filter that would not look at the whitelist.
SkippedBlacklistOnly(t, p) == \E w \in p.blacklist : Includes(toLowerCase(t), w)

\* Check blacklist/whitelist logic: if a word is blacklisted and none is
\* whitelisted, skip.
Skipped(t, p) ==
  /\ \E w \in p.blacklist : Includes(toLowerCase(t), w)
  /\ ~(p.whitelist # {} /\ \E w \in p.whitelist : Includes(toLowerCase(t), w))

\* A handler that would save the preferences it read for a message.
TableAfterMessageSaved(item, p) == saveUserPrefs(p)

\* The item after handleMessage handled a text that is no command: the table
\* is read, saveUserPrefs is not called.
TableAfterMessage(item, p) == item

\* A read that gave other preferences than the table holds has failed; one
\* that failed and gave what the table holds is not told apart.
ReadFault(item, p) == IF p = getUserPrefs(item) THEN {} ELSE {"read"}

\* The calls that failed when handleMessage delivers with the outcome o.
DeliverFaults(o, lost) ==
  (IF o = "exportFails" THEN {"export"} ELSE {})
    \cup (IF o \in {"messageFails", "documentFails"} \/ lost THEN {"send"} ELSE {})

\* The call that failed in a command: the write to the table or the send.
CommandFault(fails) ==
  IF fails = "save" THEN {"write"} ELSE IF fails = "send" THEN {"send"} ELSE {}

\* handleMessage up to the call of parseDateTime, for the text t that is no
\* command, with the clock at n and the preferences p read from the table.
HandleParse(t, n, p, first) ==
  /\ text' = t
  /\ now' = n
  /\ prefs' = p
  /\ pc' = IF Skipped(t, p) THEN "done" ELSE first
  /\ update' = "message"
  /\ results' = << >>
  /\ dateMatch' = << >>
  /\ event' = << >>
  /\ sent' = << >>
  /\ exported' = << >>
  /\ response' = << >>
  /\ db' = TableAfterMessage(db, p)
  /\ failed' = ReadFault(db, p)
  /\ UNCHANGED <<prev, chat, calls>>

\* The handler whose parseDateTime tries chrono first.
HandleText(t, n, p) == HandleParse(t, n, p, "chrono")

Receive ==
  /\ Ready
  /\ \E t \in Texts \cup FilteredTexts, n \in Nows, p \in ReadPrefs(db) :
       HandleText(t, n, p)

\* Only override chrono if it found today's date but we have a specific day
\* pattern.
ChronoSuspect(t, n, r) ==
  HasDayPattern(t) /\ getDate(r.date) = getDate(n) /\ getMonth(r.date) = getMonth(n)

\* First try chrono-node's natural parsing: a result is returned at once,
\* unless it is suspect, and then the fallbacks run.
Chrono ==
  /\ pc = "chrono"
  /\ \E r \in ChronoParse(CleanedText(text), now) :
       IF r # << >> /\ ~ChronoSuspect(text, now, r[1])
       THEN /\ results' = r
            /\ dateMatch' = r
            /\ pc' = "parsed"
       ELSE /\ results' = << >>
            /\ dateMatch' = << >>
            /\ pc' = "military"
  /\ UNCHANGED <<text, now, prefs, db, event, sent, update, exported, response, prev, chat, calls, failed>>

\* A fallback that would run although results is not empty.
FallbackUnguarded(res, found) == IF Len(found) = 0 THEN res ELSE found

\* One fallback of the cascade: it runs only while results is empty.
Fallback(res, found) == IF Len(res) = 0 THEN found ELSE res

Military ==
  /\ pc = "military"
  /\ results' = Fallback(results, MilitaryTimeMatch(text, now))
  /\ pc' = "dot"
  /\ UNCHANGED <<text, now, dateMatch, prefs, db, event, sent, update, exported, response, prev, chat, calls, failed>>

Dot ==
  /\ pc = "dot"
  /\ results' = Fallback(results, DotTimeMatch(text, now))
  /\ pc' = "dayTime"
  /\ UNCHANGED <<text, now, dateMatch, prefs, db, event, sent, update, exported, response, prev, chat, calls, failed>>

DayTime ==
  /\ pc = "dayTime"
  /\ results' = Fallback(results, DayTimeMatch(text, now))
  /\ pc' = "dayOnly"
  /\ UNCHANGED <<text, now, dateMatch, prefs, db, event, sent, update, exported, response, prev, chat, calls, failed>>

\* Try day-only patterns like "29th": chrono parses "<month> <day>, <year>".
DayOnly ==
  /\ pc = "dayOnly"
  /\ IF Len(results) = 0 /\ DayOnlyMatches(text)
     THEN \E r \in ChronoParseMonthDay(DayOnlyDay(text), now) : results' = r
     ELSE results' = results
  /\ pc' = "relative"
  /\ UNCHANGED <<text, now, dateMatch, prefs, db, event, sent, update, exported, response, prev, chat, calls, failed>>

Relative ==
  /\ pc = "relative"
  /\ results' = Fallback(results, RelativeTimeMatch(text, now))
  /\ pc' = "weekday"
  /\ UNCHANGED <<text, now, dateMatch, prefs, db, event, sent, update, exported, response, prev, chat, calls, failed>>

\* Fallback for standalone weekdays, then
\* return results.length > 0 ? results[0] : null.
Weekday ==
  /\ pc = "weekday"
  /\ IF Len(results) = 0 /\ FirstWeekday(text) # 0
     THEN \E r \in ChronoParseThisWeekday(FirstWeekday(text), now) : results' = r
     ELSE results' = results
  /\ dateMatch' = results'
  /\ pc' = "parsed"
  /\ UNCHANGED <<text, now, prefs, db, event, sent, update, exported, response, prev, chat, calls, failed>>

\* knownValues.f || d.
OrElse(kv, f, d) == IF f \in DOMAIN kv /\ kv[f] # 0 THEN kv[f] ELSE d

\* Use the parsed values directly: the start of the event.
StartOf(m) ==
  IF "hour" \in DOMAIN m.kv
  THEN NewDate(OrElse(m.kv, "year", getFullYear(m.date)),
               OrElse(m.kv, "month", getMonth(m.date) + 1) - 1,
               OrElse(m.kv, "day", getDate(m.date)),
               m.kv.hour,
               OrElse(m.kv, "minute", 0))
  ELSE m.date

\* Check if time was specified or just date.
HasTime(m) == "hour" \in DOMAIN m.kv

\* An assembly that would ignore the preferred duration.
AssembleEventHour(t, m, p) ==
  IF HasTime(m)
  THEN [title |-> extractTitle(t), start |-> StartOf(m),
        end |-> StartOf(m) + 60, allDay |-> FALSE]
  ELSE [title |-> extractTitle(t), start |-> StartOf(m), allDay |-> TRUE]

\* The event of handleMessage: timed with an end, or all-day without one.
AssembleEvent(t, m, p) ==
  IF HasTime(m)
  THEN [title |-> extractTitle(t), start |-> StartOf(m),
        end |-> StartOf(m) + p.duration_min, allDay |-> FALSE]
  ELSE [title |-> extractTitle(t), start |-> StartOf(m), allDay |-> TRUE]

\* The offset of the local time of the Lambda runtime from UTC, in minutes:
\* the function's environment sets no TZ, the runtime runs in UTC.
RuntimeOffset == 0

\* toISOString().split('T')[0].replace(/-/g, ''): the UTC day of a date.
IsoDay(t) ==
  LET u == t - RuntimeOffset
  IN Year4(getFullYear(u)) \o Pad2(getMonth(u) + 1) \o Pad2(getDate(u))

\* formatLocalTime of createGoogleCalendarUrl.
formatLocalTime(t) ==
  Year4(getFullYear(t)) \o Pad2(getMonth(t) + 1) \o Pad2(getDate(t)) \o <<"T">>
    \o Pad2(getHours(t)) \o Pad2(getMinutes(t)) \o <<"0", "0">>

\* A URL whose all-day interval would end on the day it starts.
GoogleDatesSameDay(e) ==
  IF e.allDay
  THEN IsoDay(e.start) \o <<"/">> \o IsoDay(e.start)
  ELSE formatLocalTime(e.start) \o <<"/">> \o formatLocalTime(e.end)

\* The dates parameter of the URL of createGoogleCalendarUrl.
GoogleDates(e) ==
  IF e.allDay
  THEN IsoDay(e.start) \o <<"/">> \o IsoDay(e.start + 24 * 60)
  ELSE formatLocalTime(e.start) \o <<"/">> \o formatLocalTime(e.end)

\* What createIcsContent hands to createEvent.
IcsArgs(e) ==
  [title |-> e.title,
   start |-> IF e.allDay
             THEN <<getFullYear(e.start), getMonth(e.start) + 1, getDate(e.start)>>
             ELSE <<getFullYear(e.start), getMonth(e.start) + 1, getDate(e.start),
                    getHours(e.start), getMinutes(e.start)>>,
   end |-> IF e.allDay
           THEN <<getFullYear(e.start), getMonth(e.start) + 1, getDate(e.start) + 1>>
           ELSE <<getFullYear(e.end), getMonth(e.end) + 1, getDate(e.end),
                  getHours(e.end), getMinutes(e.end)>>,
   startInputType |-> "local",
   endInputType |-> "local",
   startOutputType |-> "local",
   endOutputType |-> "local"]

\* The two exporters on an event: error tells that createEvent gave an error.
Export(e, error) == [dates |-> GoogleDates(e), ics |-> IcsArgs(e), error |-> error]

\* What is sent for an event: the exporter may fail, and so may the sending
\* of the message and the upload of the document; each is caught and
\* answered with the failure message.
Outcomes == {"ok", "exportFails", "messageFails", "documentFails"}

\* A handler that would stay silent when the exporter fails.
SentForSilent(outcome) ==
  CASE outcome = "ok" -> <<"detected", "document">>
    [] outcome = "exportFails" -> << >>
    [] outcome = "messageFails" -> <<"failed">>
    [] outcome = "documentFails" -> <<"detected", "failed">>

SentFor(outcome) ==
  CASE outcome = "ok" -> <<"detected", "document">>
    [] outcome = "exportFails" -> <<"failed">>
    [] outcome = "messageFails" -> <<"failed">>
    [] outcome = "documentFails" -> <<"detected", "failed">>

\* The failure message is sent in the catch block: when that send throws as
\* well the message is lost and the error leaves handleMessage.
Delivered(s, lost) == IF lost THEN SubSeq(s, 1, Len(s) - 1) ELSE s

\* A handler that would answer a text without a match.
NoMatchReplyFailed == <<"failed">>

\* if (!dateMatch) return: nothing is sent for a text without a match.
NoMatchReply == << >>

\* handleMessage after parseDateTime: nothing for null, else the event.
Deliver ==
  /\ pc = "parsed"
  /\ IF dateMatch = << >>
     THEN /\ event' = << >>
          /\ sent' = NoMatchReply
          /\ exported' = << >>
          /\ pc' = "done"
          /\ failed' = failed
     ELSE /\ event' = <<AssembleEvent(text, dateMatch[1], prefs)>>
          /\ \E o \in Outcomes, lost \in BOOLEAN :
               /\ o = "ok" => ~lost
               /\ exported' = <<Export(event'[1], o = "exportFails")>>
               /\ sent' = Delivered(SentFor(o), lost)
               /\ pc' = IF lost THEN "threw" ELSE "done"
               /\ failed' = failed \cup DeliverFaults(o, lost)
  /\ UNCHANGED <<text, now, results, dateMatch, prefs, db, update, response, prev, chat, calls>>

T_duration == <<"/", "d", "u", "r", "a", "t", "i", "o", "n">>

\* handleCommand, case '/duration', in a private chat: parts is the list of
\* the arguments that follow the command.  The write to the table and the
\* sending of the reply can throw.
DurationCommand(parts) ==
  /\ Ready
  /\ text' = IF parts = << >> THEN T_duration ELSE T_duration \o <<" ">> \o parts[1]
  /\ \E fails \in {"none", "save", "send"} :
       /\ IF Len(parts) < 1 \/ jsIsNaN(parts[1])
          THEN /\ fails # "save"
               /\ sent' = IF fails = "none" THEN <<"usage">> ELSE << >>
               /\ failed' = CommandFault(fails)
               /\ UNCHANGED <<prefs, db>>
          ELSE \E p \in ReadPrefs(db) :
                 /\ prefs' = [p EXCEPT !.duration_min = jsParseInt(parts[1])]
                 /\ db' = IF fails = "save" THEN db ELSE saveUserPrefs(prefs')
                 /\ sent' = IF fails = "none" THEN <<"durationSet">> ELSE << >>
                 /\ failed' = CommandFault(fails) \cup ReadFault(db, p)
       /\ pc' = IF fails = "none" THEN "done" ELSE "threw"
  /\ update' = "message"
  /\ results' = << >>
  /\ dateMatch' = << >>
  /\ event' = << >>
  /\ exported' = << >>
  /\ response' = << >>
  /\ UNCHANGED <<now, prev, chat, calls>>

Duration == \E parts \in {<< >>} \cup {<<a>> : a \in DurationArgs} : DurationCommand(parts)

\* The handler on a body that is not handled as a message: kind tells why.
\* JSON.parse throws on a body that is no JSON; an update without a message
\* is logged; handleMessage returns at once for a message without text.
Unhandled(kind) ==
  /\ Ready
  /\ update' = kind
  /\ pc' = IF kind = "malformed" THEN "threw" ELSE "done"
  /\ text' = << >>
  /\ results' = << >>
  /\ dateMatch' = << >>
  /\ event' = << >>
  /\ sent' = << >>
  /\ exported' = << >>
  /\ response' = << >>
  /\ failed' = IF kind = "malformed" THEN {"parse"} ELSE {}
  /\ UNCHANGED <<now, prefs, db, prev, chat, calls>>

Malformed == Unhandled("malformed")
NoMessage == Unhandled("noMessage")
NoText == Unhandled("noText")

\* A handler that would answer 200 from its catch block as well.
HandlerResponseAlwaysOk(threw) == [statusCode |-> 200, body |-> "ok"]

\* The response of the handler: 200 at the end of the try block, 500 from
\* its catch block.
HandlerResponse(threw) ==
  IF threw THEN [statusCode |-> 500, body |-> "Internal server error"]
  ELSE [statusCode |-> 200, body |-> "ok"]

\* The handler returns: what it held for the message is gone, the table
\* stays.  p is what an observer of the invocation keeps of it.
Finish(p) ==
  /\ pc \in {"done", "threw"}
  /\ response' = <<HandlerResponse(pc = "threw")>>
  /\ pc' = "idle"
  /\ text' = << >>
  /\ now' = 0
  /\ results' = << >>
  /\ dateMatch' = << >>
  /\ prefs' = DefaultPrefs
  /\ event' = << >>
  /\ sent' = << >>
  /\ update' = "none"
  /\ exported' = << >>
  /\ prev' = p
  /\ chat' = PrivateChat
  /\ failed' = {}
  /\ UNCHANGED <<db, calls>>

Return == Finish(prev)

Next ==
  \/ Receive
  \/ Chrono
  \/ Military
  \/ Dot
  \/ DayTime
  \/ DayOnly
  \/ Relative
  \/ Weekday
  \/ Deliver
  \/ Duration
  \/ Malformed
  \/ NoMessage
  \/ NoText
  \/ Return

Spec == Init /\ [][Next]_vars

\* ------------------------------------------------- 12-hour clock readings
\* Messages "29th <clock>" for every hour of the 12-hour clock, each marker
\* and each way of writing the minutes.
T_29th == <<"2", "9", "t", "h", " ">>
ClockMarkers == {<<"a", "m">>, <<"p", "m">>, <<"P", "M">>}
ClockMinutes == {<< >>, <<":", "3", "0">>, <<".", "3", "0">>}
ClockTexts ==
  {T_29th \o NumChars(h) \o mm \o mk :
     h \in 1..12, mm \in ClockMinutes, mk \in ClockMarkers}

ReceiveClock ==
  /\ Ready
  /\ \E t \in ClockTexts, n \in Nows, p \in ReadPrefs(db) : HandleText(t, n, p)

NextConv ==
  \/ ReceiveClock
  \/ Chrono
  \/ Military
  \/ Dot
  \/ DayTime
  \/ DayOnly
  \/ Relative
  \/ Weekday
  \/ Deliver
  \/ Return

SpecConv == Init /\ [][NextConv]_vars

\* ------------------------------------------------- titles and calendar days
\* Messages made of a title part and a date part, handled at the turn of a
\* month, of February in a leap year and of the year.
TitleParts ==
  {<< >>,
   <<"T", "e", "a", "m", " ", "M", "e", "e", "t", "i", "n", "g">>,
   <<"L", "u", "n", "c", "h", " ", "a", "t">>,
   <<"x">>,
   <<"A">>}
DateParts ==
  {<<"3", "1", "s", "t">>,
   <<"3", "0", "t", "h">>,
   <<"F", "r", "i", "d", "a", "y">>,
   <<"t", "m", "r">>,
   <<"t", "m", "r", " ", "5", "a", "m">>,
   <<"1", "1", ".", "3", "0", "p", "m">>,
   <<"1", "1", ".", "7", "5", "p", "m">>,
   <<"t", "m", "r", " ", "1", "6", "3", "0">>,
   <<"3", "1", "s", "t", " ", "5", "a", "m">>}
EventTexts ==
  {IF a = << >> THEN d ELSE a \o <<" ">> \o d : a \in TitleParts, d \in DateParts}
EventNows ==
  {NewDate(2024, 9, 21, 9, 0), NewDate(2024, 1, 28, 9, 0),
   NewDate(2024, 10, 29, 9, 0), NewDate(2024, 11, 30, 9, 0)}

ReceiveEvent ==
  /\ Ready
  /\ \E t \in EventTexts, n \in EventNows, p \in ReadPrefs(db) : HandleText(t, n, p)

NextEvents ==
  \/ ReceiveEvent
  \/ Chrono
  \/ Military
  \/ Dot
  \/ DayTime
  \/ DayOnly
  \/ Relative
  \/ Weekday
  \/ Deliver
  \/ Return

SpecEvents == Init /\ [][NextEvents]_vars

\* ------------------------------------------------------ repeated messages
\* The same messages handled again at another reading of the clock, as when
\* an update is delivered twice; the text and the match of the invocation
\* that returned last are kept.  chrono reads each of these texts one way.
RepeatTexts ==
  {<<"5", "a", "m">>,
   <<"3", "0", " ", "m", "i", "n">>,
   <<"s", "y", "n", "c">>,
   <<"t", "m", "r", " ", "5", "a", "m">>,
   <<"2", " ", "h", "o", "u", "r", "s">>,
   <<"1", " ", "H", "r">>,
   <<"9", "0", "m", "i", "n", "s">>,
   <<"s", "y", "n", "c", " ", "4", "5", " ", "m", "i", "n", "u", "t", "e", "s">>}
RepeatNows == {NewDate(2024, 9, 21, 9, 0), NewDate(2024, 11, 31, 23, 30)}

ReceiveAgain ==
  /\ Ready
  /\ \E t \in RepeatTexts, n \in RepeatNows, p \in ReadPrefs(db) : HandleText(t, n, p)

Remember == Finish(<<[text |-> text, match |-> dateMatch]>>)

NextRepeat ==
  \/ ReceiveAgain
  \/ Chrono
  \/ Military
  \/ Dot
  \/ DayTime
  \/ DayOnly
  \/ Relative
  \/ Weekday
  \/ Deliver
  \/ Remember

SpecRepeat == Init /\ [][NextRepeat]_vars

\* ------------------------------------ messages with a day and a month
\* Messages with a day and a month name in either order, after a word or
\* not, with a time or not; and two with an ordinal day.
DayWords == {<<"2", "8">>, <<"5">>, <<"3", "1">>, <<"3", "2">>, <<"0">>}
MonthWords ==
  {<<"O", "c", "t">>, <<"O", "c", "t", "o", "b", "e", "r">>, <<"f", "e", "b">>,
   <<"D", "E", "C">>, <<"O", "k", "t">>, <<"O", "c", "t", "o", "p", "u", "s">>}
MonthTexts ==
  {pre \o body \o post :
     pre \in {<< >>, <<"s", "y", "n", "c", " ">>},
     body \in {d \o <<" ">> \o m : d \in DayWords, m \in MonthWords}
              \cup {m \o <<" ">> \o d : d \in DayWords, m \in MonthWords}
              \cup {<<"2", "8", "t", "h">>, <<"2", "8", "t", "h", " ", "O", "c", "t">>},
     post \in {<< >>, <<" ", "2", "p", "m">>}}
MonthNows == {NewDate(2024, 9, 21, 9, 0), NewDate(2024, 1, 28, 9, 0)}

\* handleMessage up to the call of this parseDateTime.
ReceiveDated ==
  /\ Ready
  /\ \E t \in MonthTexts, n \in MonthNows, p \in ReadPrefs(db) :
       HandleParse(t, n, p, "dayPattern")

DayPattern ==
  /\ pc = "dayPattern"
  /\ results' = DayPatternMatch(text, now)
  /\ pc' = "monthDay"
  /\ UNCHANGED <<text, now, dateMatch, prefs, db, event, sent, update, exported, response, prev, chat, calls, failed>>

\* Pattern 2 runs only while results is empty; what results holds then is
\* returned.
MonthDay ==
  /\ pc = "monthDay"
  /\ results' = Fallback(results, MonthDayMatch(text, now))
  /\ dateMatch' = results'
  /\ pc' = "parsed"
  /\ UNCHANGED <<text, now, prefs, db, event, sent, update, exported, response, prev, chat, calls, failed>>

NextDated ==
  \/ ReceiveDated
  \/ DayPattern
  \/ MonthDay
  \/ Deliver
  \/ Return

SpecDated == Init /\ [][NextDated]_vars

\* ---------------------------------------------------------------- commands
\* text.split(' ') and parts.slice(1).join(' ').
RECURSIVE Split(_)
Split(s) ==
  LET i == Least({k \in 1..Len(s) : s[k] = " "})
  IN IF i = 0 THEN <<s>> ELSE <<Sub(s, 1, i - 1)>> \o Split(Sub(s, i + 1, Len(s)))
RECURSIVE Join(_)
Join(ps) ==
  IF Len(ps) = 0 THEN << >>
  ELSE IF Len(ps) = 1 THEN ps[1] ELSE ps[1] \o <<" ">> \o Join(Tail(ps))

\* The zone identifiers the runtime knows, of those the messages name; it
\* compares them without regard to case.
T_Tokyo == <<"A", "s", "i", "a", "/", "T", "o", "k", "y", "o">>
KnownZones == {T_Singapore, T_Tokyo}
\* A validation that would accept every zone.
isValidTimezoneAny(z) == TRUE
\* isValidTimezone: toLocaleString does not throw for the zone.
isValidTimezone(z) == \E k \in KnownZones : toLowerCase(z) = toLowerCase(k)

\* The timezone handed to the resolver and to the exporters.
safeTimezone(p) == IF isValidTimezone(p.timezone) THEN p.timezone ELSE T_Singapore

T_start == <<"/", "s", "t", "a", "r", "t">>
T_help == <<"/", "h", "e", "l", "p">>
T_tz == <<"/", "t", "z">>
T_admin == <<"/", "a", "d", "m", "i", "n">>
T_blacklist == <<"/", "b", "l", "a", "c", "k", "l", "i", "s", "t">>
T_whitelist == <<"/", "w", "h", "i", "t", "e", "l", "i", "s", "t">>
T_showblacklist == <<"/", "s", "h", "o", "w", "b", "l", "a", "c", "k", "l", "i", "s", "t">>
T_showwhitelist == <<"/", "s", "h", "o", "w", "w", "h", "i", "t", "e", "l", "i", "s", "t">>

IsGroup(c) == c.type \in {"group", "supergroup"}

\* An admin check that would trust every sender.
isAdminAnyone(c, admins) == TRUE
\* isAdmin: always in a private chat; in a group a bot admin, or a creator or
\* administrator by getChatMember; a lookup that fails gives false.
isAdmin(c, admins) ==
  \/ ~IsGroup(c)
  \/ c.from \in admins
  \/ c.member \in {"creator", "administrator"}

\* includes(word) ? filter(w => w !== word) : push(word).
Toggle(S, w) == IF w \in S THEN S \ {w} ELSE S \cup {w}

\* What a command does: its reply, the preferences it saves if it saves, and
\* whether the table rejects the item: duration_min is written as the number
\* NaN.toString(), which the table does not take.
Reply(r) == [reply |-> r, save |-> << >>, rejected |-> FALSE]
ReplySaving(r, p) == [reply |-> r, save |-> <<p>>, rejected |-> FALSE]
Rejected(r) == [reply |-> r, save |-> << >>, rejected |-> TRUE]

\* parseInt gives NaN for an argument without a digit after its sign.
jsParseIntIsNaN(a) == DigitRun(a, SignLen(a) + 1) = 0

\* handleCommand for the message of chat c with the words parts: admin is what
\* isAdmin gives, p the preferences getUserPrefs gives.  The result is the
\* reply and, when the command saves, the preferences it saves.
CommandEffect(parts, c, admin, p) ==
  LET command == parts[1]
      refused == IsGroup(c) /\ ~admin
  IN CASE command \in {T_start, T_help} -> Reply("help")
       [] command = T_tz ->
            IF Len(parts) < 2 THEN Reply("usage")
            ELSE IF refused THEN Reply("refused")
            ELSE IF ~isValidTimezone(Join(Tail(parts))) THEN Reply("invalidTimezone")
            ELSE ReplySaving("timezoneSet", [p EXCEPT !.timezone = Join(Tail(parts))])
       [] command = T_duration ->
            IF Len(parts) < 2 \/ jsIsNaN(parts[2]) THEN Reply("usage")
            ELSE IF refused THEN Reply("refused")
            ELSE IF jsParseIntIsNaN(parts[2]) THEN Rejected("durationSet")
            ELSE ReplySaving("durationSet", [p EXCEPT !.duration_min = jsParseInt(parts[2])])
       [] command = T_admin ->
            IF ~IsGroup(c) THEN Reply("groupsOnly")
            ELSE IF ~admin THEN Reply("refused")
            ELSE IF Len(parts) < 2 THEN Reply("usage")
            ELSE IF c.reply = << >> THEN Reply("replyNeeded")
            ELSE IF c.reply[1] \in p.bot_admins THEN Reply("promoted")
            ELSE ReplySaving("promoted", [p EXCEPT !.bot_admins = @ \cup {c.reply[1]}])
       [] command = T_blacklist ->
            IF Len(parts) < 2 THEN Reply("current")
            ELSE IF refused THEN Reply("refused")
            ELSE ReplySaving(
                   IF toLowerCase(parts[2]) \in p.blacklist THEN "removed" ELSE "added",
                   [p EXCEPT !.blacklist = Toggle(@, toLowerCase(parts[2]))])
       [] command = T_whitelist ->
            IF Len(parts) < 2 THEN Reply("current")
            ELSE IF refused THEN Reply("refused")
            ELSE ReplySaving(
                   IF toLowerCase(parts[2]) \in p.whitelist THEN "removed" ELSE "added",
                   [p EXCEPT !.whitelist = Toggle(@, toLowerCase(parts[2]))])
       [] command \in {T_showblacklist, T_showwhitelist} -> Reply("shown")
       [] OTHER -> Reply("unknown")

\* handleMessage for a text that starts with '/': handleCommand alone.  Each
\* read of the table may fail and give the defaults; the write and the send
\* may throw, and then the error leaves the handler.
HandleCommand(t, c) ==
  /\ Ready
  /\ text' = t
  /\ chat' = c
  /\ update' = "message"
  /\ \E a \in ReadPrefs(db), p \in ReadPrefs(db), fails \in {"none", "save", "send"} :
       LET r == CommandEffect(Split(t), c, isAdmin(c, a.bot_admins), p)
       IN /\ fails = "save" <=> (r.rejected \/ (r.save # << >> /\ fails = "save"))
          /\ prefs' = IF r.save # << >> THEN r.save[1] ELSE p
          /\ db' = IF r.save # << >> /\ fails # "save" THEN saveUserPrefs(r.save[1]) ELSE db
          /\ sent' = IF fails = "none" THEN <<r.reply>> ELSE << >>
          /\ pc' = IF fails = "none" THEN "done" ELSE "threw"
          /\ failed' = (IF r.rejected THEN {"rejected"} ELSE CommandFault(fails))
                          \cup ReadFault(db, p) \cup ReadFault(db, a)
          /\ p # getUserPrefs(db) =>
               r.save # << >> \/ r.rejected \/ r.reply \in {"promoted", "current", "shown"}
          /\ a # getUserPrefs(db) =>
               IsGroup(c) /\ r.reply \notin {"help", "unknown", "current", "shown"}
  /\ results' = << >>
  /\ dateMatch' = << >>
  /\ event' = << >>
  /\ exported' = << >>
  /\ response' = << >>
  /\ UNCHANGED <<now, prev, calls>>

\* Commands and texts of a private chat.
CommandTexts ==
  {T_help,
   T_tz,
   <<"/", "t", "z", " ", "A", "s", "i", "a", "/", "T", "o", "k", "y", "o">>,
   <<"/", "t", "z", " ", "a", "s", "i", "a", "/", "t", "o", "k", "y", "o">>,
   <<"/", "t", "z", " ", "M", "a", "r", "s">>,
   <<"/", "t", "z", " ", " ", "A", "s", "i", "a", "/", "T", "o", "k", "y", "o">>,
   <<"/", "d", "u", "r", "a", "t", "i", "o", "n", " ", "9", "0">>,
   <<"/", "d", "u", "r", "a", "t", "i", "o", "n", " ", "a", "b", "c">>,
   <<"/", "d", "u", "r", "a", "t", "i", "o", "n", " ", " ", "9", "0">>,
   T_blacklist,
   <<"/", "b", "l", "a", "c", "k", "l", "i", "s", "t", " ", "n", "o", "w">>,
   <<"/", "b", "l", "a", "c", "k", "l", "i", "s", "t", " ", "S", "y", "n", "c">>,
   <<"/", "w", "h", "i", "t", "e", "l", "i", "s", "t", " ", "5", "a", "m">>,
   T_showwhitelist,
   <<"/", "a", "d", "m", "i", "n", " ", "u", "2">>,
   <<"/", "s", "y", "n", "c", " ", "5", "a", "m">>}
PlainTexts ==
  {<<"5", "a", "m", " ", "n", "o", "w">>,
   L_now,
   <<"s", "y", "n", "c", " ", "5", "a", "m">>,
   <<"K", "n", "o", "w", " ", "3", "1", "s", "t">>,
   <<"s", "y", "n", "c">>}

ReceiveCommand ==
  \E t \in CommandTexts : HandleCommand(t, PrivateChat)

ReceivePlain ==
  /\ Ready
  /\ \E t \in PlainTexts, n \in Nows, p \in ReadPrefs(db) : HandleText(t, n, p)

NextCommands ==
  \/ ReceiveCommand
  \/ ReceivePlain
  \/ Chrono
  \/ Military
  \/ Dot
  \/ DayTime
  \/ DayOnly
  \/ Relative
  \/ Weekday
  \/ Deliver
  \/ Return

SpecCommands == Init /\ [][NextCommands]_vars

\* ------------------------------------------------------------ group chats
\* Commands sent to one group by two of its members; what getChatMember
\* reports of the sender, or that the lookup fails; the message may be a
\* reply to a message of u2.  The preferences are those of the group.
GroupChats ==
  [type : {"group", "supergroup"},
   from : {"u1", "u2"},
   member : {"creator", "administrator", "member", "fails"},
   reply : {<< >>, <<"u2">>}]
GroupTexts ==
  {T_help,
   T_tz,
   <<"/", "t", "z", " ", "A", "s", "i", "a", "/", "T", "o", "k", "y", "o">>,
   <<"/", "d", "u", "r", "a", "t", "i", "o", "n", " ", "9", "0">>,
   <<"/", "d", "u", "r", "a", "t", "i", "o", "n", " ", "a", "b", "c">>,
   T_blacklist,
   <<"/", "b", "l", "a", "c", "k", "l", "i", "s", "t", " ", "s", "y", "n", "c">>,
   <<"/", "w", "h", "i", "t", "e", "l", "i", "s", "t", " ", "5", "a", "m">>,
   T_admin,
   <<"/", "a", "d", "m", "i", "n", " ", "u", "2">>}

ReceiveGroupCommand ==
  \E t \in GroupTexts, c \in GroupChats : HandleCommand(t, c)

NextGroup ==
  \/ ReceiveGroupCommand
  \/ Return

SpecGroup == Init /\ [][NextGroup]_vars

\* ------------------------------------------------- concurrent invocations
\* Two invocations of the handler run at the same time, each with a command
\* of the same private chat: each awaits getUserPrefs, changes what it read,
\* awaits saveUserPrefs and sends its reply; the awaits of the two interleave.
\* base is the item of the table when the two were invoked.
ConcurrentTexts ==
  {<<"/", "t", "z", " ", "A", "s", "i", "a", "/", "T", "o", "k", "y", "o">>,
   <<"/", "d", "u", "r", "a", "t", "i", "o", "n", " ", "9", "0">>,
   <<"/", "b", "l", "a", "c", "k", "l", "i", "s", "t", " ", "s", "y", "n", "c">>,
   <<"/", "b", "l", "a", "c", "k", "l", "i", "s", "t", " ", "l", "u", "n", "c", "h">>,
   <<"/", "w", "h", "i", "t", "e", "l", "i", "s", "t", " ", "5", "a", "m">>}

Invocation(t, item) == [text |-> t, at |-> "read", save |-> << >>, reply |-> "", base |-> item]

InvokeTwo ==
  /\ Ready
  /\ calls = << >>
  /\ \E t1 \in ConcurrentTexts, t2 \in ConcurrentTexts :
       calls' = <<Invocation(t1, db), Invocation(t2, db)>>
  /\ UNCHANGED <<pc, text, now, results, dateMatch, prefs, db, event, sent, update,
                 exported, response, prev, chat, failed>>

\* const prefs = await getUserPrefs(prefId), and the change of the command.
CallRead(i) ==
  /\ calls # << >>
  /\ calls[i].at = "read"
  /\ LET r == CommandEffect(Split(calls[i].text), PrivateChat, TRUE, getUserPrefs(db))
     IN calls' = [calls EXCEPT ![i].at = IF r.save # << >> THEN "write" ELSE "done",
                               ![i].save = r.save,
                               ![i].reply = r.reply]
  /\ UNCHANGED <<pc, text, now, results, dateMatch, prefs, db, event, sent, update,
                 exported, response, prev, chat, failed>>

\* await saveUserPrefs(prefId, prefs), then the reply.
CallWrite(i) ==
  /\ calls # << >>
  /\ calls[i].at = "write"
  /\ db' = saveUserPrefs(calls[i].save[1])
  /\ calls' = [calls EXCEPT ![i].at = "done"]
  /\ UNCHANGED <<pc, text, now, results, dateMatch, prefs, event, sent, update,
                 exported, response, prev, chat, failed>>

Reads == \E i \in 1..2 : CallRead(i)
Writes == \E i \in 1..2 : CallWrite(i)

\* Both invocations have returned.
BothReturn ==
  /\ calls # << >>
  /\ \A i \in 1..2 : calls[i].at = "done"
  /\ calls' = << >>
  /\ UNCHANGED <<pc, text, now, results, dateMatch, prefs, db, event, sent, update,
                 exported, response, prev, chat, failed>>

NextConcurrent ==
  \/ InvokeTwo
  \/ Reads
  \/ Writes
  \/ BothReturn

SpecConcurrent == Init /\ [][NextConcurrent]_vars

\* ================================================================ claims
IsCommand(t) == At(t, 1) = "/"
\* The steps of the fallback cascade of parseDateTime.
CascadeSteps == {"military", "dot", "dayTime", "dayOnly", "relative", "weekday"}

\* A match whose known day, hour and minute are in their ranges.
InRange(m) ==
  /\ "day" \in DOMAIN m.kv => m.kv.day \in 1..31
  /\ "hour" \in DOMAIN m.kv => m.kv.hour \in 0..23
  /\ "minute" \in DOMAIN m.kv => m.kv.minute \in 0..59
FiresValid(r) == r # << >> /\ InRange(r[1])

\* The matchers of the cascade in the priority order of the specification
\* (the month-name matcher is chrono's in this source): whether each one
\* matches the text with values in range, and whether it produced dm.
SpecFires(t, n) ==
  << FiresValid(DayTimeMatch(t, n)),
     DayOnlyMatches(t) /\ DayOnlyDay(t) \in 1..31,
     FiresValid(MilitaryTimeMatch(t, n)),
     FiresValid(DotTimeMatch(t, n)),
     FiresValid(RelativeTimeMatch(t, n)),
     FirstWeekday(t) # 0 >>
ProducedBy(k, t, n, dm) ==
  CASE k = 1 -> dm = DayTimeMatch(t, n)
    [] k = 2 -> dm \in ChronoParseMonthDay(DayOnlyDay(t), n)
    [] k = 3 -> dm = MilitaryTimeMatch(t, n)
    [] k = 4 -> dm = DotTimeMatch(t, n)
    [] k = 5 -> dm = RelativeTimeMatch(t, n)
    [] k = 6 -> dm \in ChronoParseThisWeekday(FirstWeekday(t), n)
    [] OTHER -> FALSE

\* C1: when the cascade of matchers returns and two of its matchers both
\* match the text with valid values, the match returned is the one of the
\* matcher that comes first in the order day-ordinal+time, day-ordinal alone,
\* 24-hour time, dot-notation time, relative offset, bare weekday.
C1_PriorityOrder ==
  [][(pc = "weekday" /\ Cardinality({k \in 1..6 : SpecFires(text, now)[k]}) >= 2)
       => ProducedBy(FirstOf(6, LAMBDA k : SpecFires(text, now)[k]), text, now, dateMatch')]_vars

\* C2: once a matcher has produced a result, no matcher evaluated after it
\* replaces or alters it, and the value returned is that result; a result
\* of chrono that is accepted is returned as it is.
C2_FirstSuccessWins ==
  [][/\ (pc \in CascadeSteps /\ results # << >>)
          => (results' = results /\ (pc' = "parsed" => dateMatch' = results))
     /\ (pc = "chrono" /\ pc' = "parsed") => (dateMatch' = results' /\ results' # << >>)
     /\ (pc = "weekday") => dateMatch' = results']_vars

\* C2 witness: the 24-hour matcher produced the match that was returned
\* although the relative-offset matcher, evaluated after it, matches too.
C2_Witness ==
  /\ pc = "parsed"
  /\ dateMatch # << >>
  /\ dateMatch = MilitaryTimeMatch(text, now)
  /\ RelativeTimeMatch(text, now) # << >>
  /\ RelativeTimeMatch(text, now) # dateMatch

\* No fallback matcher matches the text, and chrono finds nothing in it.
NoMatcherFires(t, n) ==
  /\ ChronoParse(CleanedText(t), n) = {<< >>}
  /\ MilitaryTimeMatch(t, n) = << >>
  /\ DotTimeMatch(t, n) = << >>
  /\ DayTimeMatch(t, n) = << >>
  /\ ~DayOnlyMatches(t)
  /\ RelativeTimeMatch(t, n) = << >>
  /\ FirstWeekday(t) = 0

\* C3: when no matcher fires parseDateTime returns null, and handleMessage
\* then produces no event and sends no reply and no document.
C3_NoMatchSilent ==
  /\ (pc \in {"parsed", "done"} /\ ~IsCommand(text) /\ NoMatcherFires(text, now))
       => dateMatch = << >>
  /\ (pc = "done" /\ ~IsCommand(text) /\ dateMatch = << >>)
       => (event = << >> /\ sent = << >>)

\* C3 witness: a text without temporal content was handled to the end.
C3_Witness ==
  /\ pc = "done"
  /\ text = <<"s", "y", "n", "c">>
  /\ NoMatcherFires(text, now)
  /\ dateMatch = << >>
  /\ event = << >>
  /\ sent = << >>

\* C4: every match returned with a time of day has its hour in 0..23 and its
\* minute in 0..59.
C4_TimeInRange ==
  (pc = "parsed" /\ dateMatch # << >> /\ "hour" \in DOMAIN dateMatch[1].kv)
    => (dateMatch[1].kv.hour \in 0..23 /\ dateMatch[1].kv.minute \in 0..59)

\* C5: no match with a day outside 1..31 is returned.
C5_DayInRange ==
  (pc = "parsed" /\ dateMatch # << >> /\ "day" \in DOMAIN dateMatch[1].kv)
    => dateMatch[1].kv.day \in 1..31

\* The hour written in a message "29th <clock>", and whether its marker is pm.
WrittenHour(t) == ParseInt(t, 6, DigitRun(t, 6))
WrittenPm(t) == Lower(At(t, Len(t) - 1)) = "p"
\* The conversion as the specification states it.
Claimed12(h, isPm) ==
  CASE h = 12 /\ ~isPm -> 0
    [] h = 12 /\ isPm -> 12
    [] h \in 1..11 /\ isPm -> h + 12
    [] OTHER -> h

\* C6: a matcher that reads an am/pm marker resolves hour 12 with am to 0,
\* hour 12 with pm to 12, hours 1..11 with pm to hour+12 and hours 1..11
\* with am to the hour itself.
C6_Hour12To24 ==
  [][(pc \in {"dot", "dayTime"} /\ results = << >> /\ results' # << >>)
       => results'[1].kv.hour = Claimed12(WrittenHour(text), WrittenPm(text))]_vars

\* C6 witness: the day-ordinal+time matcher read "12am" as hour 0.
C6_Witness ==
  /\ pc = "parsed"
  /\ dateMatch # << >>
  /\ dateMatch = DayTimeMatch(text, now)
  /\ WrittenHour(text) = 12
  /\ ~WrittenPm(text)
  /\ dateMatch[1].kv.hour = 0

\* The first and the second time of the range of a text: <<hour, minute>>.
ClockValue(s, i, sh) ==
  << Hour24(ParseInt(s, i, sh[1]), AmPmOf(s, i + sh[1] + sh[2] + sh[3])),
     IF sh[3] = 0 THEN 0 ELSE ParseInt(s, i + sh[1] + sh[2], sh[3]) >>
HasRange(t) == TimeRangeMatch(DotToColon(t)) # << >>
RangeStart(t) ==
  LET m == TimeRangeMatch(DotToColon(t))[1] IN ClockValue(DotToColon(t), m.pos, m.sh)

RangeEnd(t) ==
  LET m == TimeRangeMatch(DotToColon(t))[1] IN ClockValue(DotToColon(t), m.pos2, m.sh2)
MatchTime(m) == <<m.kv.hour, OrElse(m.kv, "minute", 0)>>

\* C7: a text with a time range never resolves to the second time of the
\* range: the match returned carries a time of day, which is not the time
\* the range ends at, and the end of the event is its start plus the
\* preferred duration.
C7_RangeResolvesToStart ==
  (pc = "done" /\ ~IsCommand(text) /\ HasRange(text) /\ dateMatch # << >>
     /\ RangeEnd(text) # RangeStart(text))
    => /\ HasTime(dateMatch[1])
       /\ MatchTime(dateMatch[1]) # RangeEnd(text)
       /\ event # << >>
       /\ event[1].end = event[1].start + prefs.duration_min

\* C8: the event is timed, with end = start + duration_min minutes, exactly
\* when the match carries an hour; otherwise it is all-day and has no end.
C8_TimedIffHour ==
  (pc = "done" /\ dateMatch # << >>)
    => /\ event # << >>
       /\ event[1].allDay = ~("hour" \in DOMAIN dateMatch[1].kv)
       /\ ~event[1].allDay
            => ("end" \in DOMAIN event[1]
                 /\ event[1].end = event[1].start + prefs.duration_min)
       /\ event[1].allDay => "end" \notin DOMAIN event[1]

\* C8 witness: a timed event assembled under a preferred duration of 90.
C8_Witness ==
  /\ pc = "done"
  /\ event # << >>
  /\ ~event[1].allDay
  /\ prefs.duration_min = 90
  /\ event[1].end = event[1].start + 90

\* C9: every timed event ends strictly later than it starts.
C9_EndAfterStart ==
  (pc = "done" /\ event # << >> /\ ~event[1].allDay)
    => event[1].end > event[1].start

T_range_sync ==
  <<"3", ":", "3", "0", "p", "m", "-", "4", ":", "3", "0", "p", "m", " ",
    "s", "y", "n", "c">>
T_sync == <<"s", "y", "n", "c">>

\* C10: nothing of the matched date/time text remains in the title: not the
\* text a matcher matched, not the separator of a time range, and
\* "3:30pm-4:30pm sync" is titled "sync".
C10_TitleStripsMatch ==
  (pc = "done" /\ event # << >>)
    => /\ dateMatch[1].text # << >> => ~Includes(event[1].title, dateMatch[1].text)
       /\ HasRange(text) => ~Includes(event[1].title, <<"-">>)
       /\ text = T_range_sync => event[1].title = T_sync

\* a is a subsequence of b from positions i and j on.
RECURSIVE SubseqFrom(_, _, _, _)
SubseqFrom(a, i, b, j) ==
  IF i > Len(a) THEN TRUE
  ELSE IF j > Len(b) THEN FALSE
  ELSE IF a[i] = b[j] THEN SubseqFrom(a, i + 1, b, j + 1)
  ELSE SubseqFrom(a, i, b, j + 1)
NoSpaces(s) == SelectSeq(s, LAMBDA c : c # " ")
\* What is left of the text once the date/time patterns and the stopwords
\* are stripped and the ends are trimmed.
Residue(t) == Trim(ReplaceAll(9, ReplaceAll(8, RemovePatterns(t, 1))))

\* C11: the title of every event is not empty: it is "Event" when the
\* residue is shorter than 2 characters, and otherwise the residue, trimmed,
\* with the characters of the text in their case.
C11_TitleNonEmpty ==
  (pc \in {"done", "threw"} /\ event # << >>)
    => /\ event[1].title # << >>
       /\ ~IsSpace(Head(event[1].title))
       /\ ~IsSpace(event[1].title[Len(event[1].title)])
       /\ IF Len(Residue(text)) < 2
          THEN event[1].title = T_Event
          ELSE /\ event[1].title = Residue(text)
               /\ SubseqFrom(NoSpaces(event[1].title), 1, text, 1)

\* C11 witness: a title that keeps the capitals of the text.
C11_Witness ==
  /\ pc = "done"
  /\ event # << >>
  /\ event[1].title = <<"T", "e", "a", "m", " ", "M", "e", "e", "t", "i", "n", "g">>

\* C11 witness of the fallback: the one-letter residue "x" is titled "Event".
C11_WitnessFallback ==
  /\ pc = "done"
  /\ event # << >>
  /\ Residue(text) = <<"x">>
  /\ event[1].title = T_Event

\* C12: for an all-day event the ICS exporter is given a start of year,
\* month and day and no end; for a timed event a start and an end of year,
\* month, day, hour and minute, both tagged as local.
C12_IcsArguments ==
  (pc \in {"done", "threw"} /\ exported # << >>)
    => IF event[1].allDay
       THEN /\ Len(exported[1].ics.start) = 3
            /\ "end" \notin DOMAIN exported[1].ics
       ELSE /\ Len(exported[1].ics.start) = 5
            /\ Len(exported[1].ics.end) = 5
            /\ exported[1].ics.startInputType = "local"
            /\ exported[1].ics.endInputType = "local"

\* The calendar day after the day d of month m of year y.
NextCalendarDay(y, m, d) ==
  IF d < DaysInMonth(y, m) THEN <<y, m, d + 1>>
  ELSE IF m < 12 THEN <<y, m + 1, 1>>
  ELSE <<y + 1, 1, 1>>
Ymd(d) == Year4(d[1]) \o Pad2(d[2]) \o Pad2(d[3])
StartDay(e) == <<getFullYear(e.start), getMonth(e.start) + 1, getDate(e.start)>>

\* C13: for an all-day event the dates of the deep link are YYYYMMDD/YYYYMMDD,
\* the calendar day of the start and the calendar day after it.
C13_AllDayDates ==
  (pc \in {"done", "threw"} /\ exported # << >> /\ event[1].allDay)
    => exported[1].dates =
         Ymd(StartDay(event[1])) \o <<"/">>
           \o Ymd(NextCalendarDay(StartDay(event[1])[1], StartDay(event[1])[2],
                                  StartDay(event[1])[3]))

\* C13 witness: an all-day event on the last day of the year.
C13_Witness ==
  /\ pc = "done"
  /\ exported # << >>
  /\ event[1].allDay
  /\ exported[1].dates =
       <<"2", "0", "2", "4", "1", "2", "3", "1", "/",
         "2", "0", "2", "5", "0", "1", "0", "1">>

\* C14: when the ICS exporter fails for a message with a match, neither the
\* message of the detected event nor the document is sent, and the failure
\* message is what the handling sends.
C14_ExportFailureReported ==
  (pc \in {"done", "threw"} /\ exported # << >> /\ exported[1].error)
    => /\ dateMatch # << >>
       /\ \A k \in 1..Len(sent) : sent[k] \notin {"detected", "document"}
       /\ pc = "done" => (sent = <<"failed">> /\ sent # NoMatchReply)

\* C14 witness: the exporter failed and the failure message was sent.
C14_Witness ==
  /\ pc = "done"
  /\ exported # << >>
  /\ exported[1].error
  /\ sent = <<"failed">>

\* C15: the resolver is deterministic in its explicit inputs, the text and
\* the timezone: an invocation on the text of an earlier invocation returns
\* the match the earlier one returned, whatever the clocks read.
C15_Deterministic ==
  (pc = "parsed" /\ prev # << >> /\ prev[1].text = text)
    => dateMatch = prev[1].match

\* The amount written in a text and the minutes it stands for: the first run
\* of digits, counted in hours when the unit after it starts with h.
WrittenAmount(t) ==
  LET i == FirstPos(t, LAMBDA p : IsDigit(At(t, p)))
  IN ParseInt(t, i, DigitRun(t, i))
WrittenUnitIsHour(t) ==
  LET i == FirstPos(t, LAMBDA p : IsDigit(At(t, p)))
      j == i + DigitRun(t, i)
  IN Lower(At(t, j + SpacesAt(t, j))) = "h"
ClaimedOffset(t) ==
  IF WrittenUnitIsHour(t) THEN WrittenAmount(t) * 60 ELSE WrittenAmount(t)

\* C17: when the relative-offset matcher fires, the instant of its match is
\* the reference time plus the amount in minutes, or plus 60 times the
\* amount for an hour unit, the match carries an hour and a minute, and the
\* event made of it is timed and starts at that instant.
C17_RelativeOffset ==
  /\ (pc \in {"weekday", "parsed", "done", "threw"} /\ results # << >>
        /\ results = RelativeTimeMatch(text, now))
       => /\ results[1].date = now + ClaimedOffset(text)
          /\ {"hour", "minute"} \subseteq DOMAIN results[1].kv
          /\ results[1].kv.hour = getHours(now + ClaimedOffset(text))
          /\ results[1].kv.minute = getMinutes(now + ClaimedOffset(text))
  /\ (pc \in {"done", "threw"} /\ dateMatch # << >>
        /\ dateMatch = RelativeTimeMatch(text, now))
       => /\ ~event[1].allDay
          /\ event[1].start = now + ClaimedOffset(text)

\* C17 witness: "2 hours" half an hour before the end of the year gives a
\* timed event 120 minutes later, in the next year.
C17_Witness ==
  /\ pc = "done"
  /\ text = <<"2", " ", "h", "o", "u", "r", "s">>
  /\ dateMatch = RelativeTimeMatch(text, now)
  /\ event # << >>
  /\ ~event[1].allDay
  /\ event[1].start = now + 120
  /\ getFullYear(event[1].start) = getFullYear(now) + 1

\* The hour and the minute written in the text a time matcher matched:
\* "1630", "16:30" or "3.30pm".
CapturedTime(mt) ==
  LET n == DigitRun(mt, 1)
      sep == ~IsDigit(At(mt, n + 1)) /\ IsDigit(At(mt, n + 2))
      hour == IF sep THEN ParseInt(mt, 1, n) ELSE ParseInt(mt, 1, n - 2)
      minute == IF sep THEN ParseInt(mt, n + 2, 2) ELSE ParseInt(mt, n - 1, 2)
      marked == Lower(At(mt, Len(mt))) = "m"
  IN <<IF marked THEN Claimed12(hour, Lower(At(mt, Len(mt) - 1)) = "p") ELSE hour, minute>>
DayOf(t) == <<getFullYear(t), getMonth(t) + 1, getDate(t)>>

\* C16: a match of the 24-hour or of the dot-notation matcher is on the day
\* of the reference time, or on the day after it exactly when the text holds
\* "tomorrow" or "tmr", and its hour and minute are those written in the text.
C16_TodayOrTomorrow ==
  [][(pc \in {"military", "dot"} /\ results = << >> /\ results' # << >>)
       => /\ DayOf(results'[1].date)
               = DayOf(IF HasTomorrow(text) THEN now + 24 * 60 ELSE now)
          /\ <<results'[1].kv.year, results'[1].kv.month, results'[1].kv.day>>
               = DayOf(IF HasTomorrow(text) THEN now + 24 * 60 ELSE now)
          /\ <<results'[1].kv.hour, results'[1].kv.minute>>
               = CapturedTime(results'[1].text)]_vars

\* A text whose only temporal content is a weekday name.
BareWeekdayText(t) ==
  /\ FirstWeekday(t) # 0
  /\ \A i \in 1..Len(t) : ~IsDigit(t[i])
  /\ ~HasTomorrow(t)
  /\ ~Includes(toLowerCase(t), L_today)
\* The first day on or after the day of n that is the weekday numbered w.
OnOrAfter(n, w) == n + ((w - getDay(n) + 7) % 7) * 24 * 60

\* C18: a bare weekday name resolves to the first date on or after the
\* reference date that falls on that weekday, the match has no hour, and the
\* event is all-day without an end.
C18_WeekdayOnOrAfter ==
  (pc \in {"done", "threw"} /\ update = "message" /\ BareWeekdayText(text))
    => /\ dateMatch # << >>
       /\ "hour" \notin DOMAIN dateMatch[1].kv
       /\ DayOf(dateMatch[1].date) = DayOf(OnOrAfter(now, WeekdayNumber(FirstWeekday(text))))
       /\ event[1].allDay
       /\ "end" \notin DOMAIN event[1]
       /\ DayOf(event[1].start) = DayOf(OnOrAfter(now, WeekdayNumber(FirstWeekday(text))))

\* The months 1..12 a name of the table stands for, written in t as a whole
\* word; and the first number written in t, the day of these messages.
NamedMonths(t) ==
  {monthMap(k) + 1 : k \in {k \in 1..24 : \E i \in 1..Len(t) :
     /\ LitAt(t, i, MonthNames[k])
     /\ WB(t, i)
     /\ WB(t, i + Len(MonthNames[k]))}}
FirstNumber(t) ==
  LET i == Least({p \in 1..Len(t) : IsDigit(t[p])})
  IN ParseInt(t, i, DigitRun(t, i))

\* C19: the month-name matcher resolves a day with a month name of the table,
\* in either order, to that month and that day in the year of the reference
\* time; a day outside 1..31 or a name outside the table yields no match.
C19_MonthDay ==
  [][(pc = "monthDay" /\ results = << >>)
       => IF NamedMonths(text) # {} /\ FirstNumber(text) \in 1..31
          THEN /\ results' # << >>
               /\ results'[1].kv.year = getFullYear(now)
               /\ results'[1].kv.month \in NamedMonths(text)
               /\ results'[1].kv.day = FirstNumber(text)
               /\ DayOf(results'[1].date)
                    = <<getFullYear(now), results'[1].kv.month, FirstNumber(text)>>
          ELSE results' = << >>]_vars

\* C20: the handler never throws and always returns a response: a step that
\* ends an invocation leaves statusCode 200 with the body ok when the body
\* parsed and the handling completed, and statusCode 500 exactly when parsing
\* the body or handling the message threw; an update without a message, a
\* message without text, a filtered message and a text without a match
\* complete.
C20_HandlerResponds ==
  [][/\ pc \in {"done", "threw"} => pc' = "idle"
     /\ (pc # "idle" /\ pc' = "idle") =>
          /\ pc \in {"done", "threw"}
          /\ Len(response') = 1
          /\ response'[1].statusCode = 500 <=> pc = "threw"
          /\ response'[1].statusCode = 200 <=> pc = "done"
          /\ response'[1].statusCode = 200 => response'[1].body = "ok"
          /\ update = "malformed" => response'[1].statusCode = 500
          /\ update \in {"noMessage", "noText"} => response'[1].statusCode = 200
          /\ (update = "message" /\ ~IsCommand(text)
                /\ (Skipped(text, prefs) \/ dateMatch = << >>))
               => response'[1].statusCode = 200
          /\ (update = "message" /\ sent # << >> /\ sent[Len(sent)] \in {"document", "failed"})
               => response'[1].statusCode = 200]_vars
C20_Witness ==
  /\ pc = "idle"
  /\ response # << >>
  /\ response[1].statusCode = 500
  /\ response[1].body = "Internal server error"

\* A word of the list W stands in the text t, lower-cased.
HasWordOf(t, W) ==
  \E w \in W : \E i \in 1..Len(t) :
    /\ i + Len(w) - 1 <= Len(t)
    /\ \A k \in 1..Len(w) : Lower(t[i + k - 1]) = w[k]

\* C21: the filter runs before the resolver: a text with a blacklisted word
\* and no whitelisted word ends the handling at once, parseDateTime is not
\* called, there is no event and no reply; a text with a whitelisted word goes
\* on to parseDateTime even when it holds a blacklisted word too.
C21_FilterBeforeResolver ==
  [][(pc = "idle" /\ update' = "message" /\ ~IsCommand(text'))
       => IF HasWordOf(text', prefs'.blacklist) /\ ~HasWordOf(text', prefs'.whitelist)
          THEN /\ pc' = "done"
               /\ results' = << >>
               /\ dateMatch' = << >>
               /\ event' = << >>
               /\ sent' = << >>
          ELSE pc' = "chrono"]_vars
C21_Witness ==
  /\ pc = "chrono"
  /\ HasWordOf(text, prefs.blacklist)
  /\ HasWordOf(text, prefs.whitelist)

\* The zone names of these messages that are zone identifiers, in lower case.
ZoneNames == {<<"a", "s", "i", "a", "/", "s", "i", "n", "g", "a", "p", "o", "r", "e">>, <<"a", "s", "i", "a", "/", "t", "o", "k", "y", "o">>}
IsZone(z) == \E k \in ZoneNames : Len(z) = Len(k) /\ \A i \in 1..Len(k) : Lower(z[i]) = k[i]
\* The text is /tz with an argument; the argument is what follows "/tz ".
IsTzCommand(t) == Len(t) >= 4 /\ SubSeq(t, 1, 4) = <<"/", "t", "z", " ">>
TzArgument(t) == SubSeq(t, 5, Len(t))

CommandIs(t, w) ==
  /\ Len(t) >= Len(w)
  /\ SubSeq(t, 1, Len(w)) = w
  /\ Len(t) > Len(w) => t[Len(w) + 1] = " "
HasArgument(t) == \E i \in 1..Len(t) : t[i] = " "
\* /tz, /duration, /blacklist, /whitelist or /admin; and one of them in the
\* form that asks for a change: with its argument, /duration with a number.
ChangesPreferences(t) ==
  \E w \in {T_tz, T_duration, T_blacklist, T_whitelist, T_admin} : CommandIs(t, w)
AsksForChange(t) ==
  \/ CommandIs(t, T_admin)
  \/ \E w \in {T_tz, T_blacklist, T_whitelist} : CommandIs(t, w) /\ HasArgument(t)
  \/ CommandIs(t, T_duration) /\ HasArgument(t) /\ IsDigit(t[Len(t)])
\* The sender is listed in the stored bot_admins of the group, or the
\* platform reports the sender as creator or administrator.
SenderIsAdmin(c, item) ==
  \/ item # << >> /\ c.from \in item[1].bot_admins
  \/ c.member \in {"creator", "administrator"}

\* C23: in a group a /tz, /duration, /blacklist, /whitelist or /admin command
\* of a sender who is no bot admin, creator or administrator of the group,
\* the failed lookup included, leaves the stored preferences unchanged; when
\* the command asks for a change the reply is the refusal.
C23_GroupAdminOnly ==
  [][(pc = "idle" /\ update' = "message" /\ IsGroup(chat')
        /\ ChangesPreferences(text') /\ ~SenderIsAdmin(chat', db))
       => /\ db' = db
          /\ (AsksForChange(text') /\ pc' = "done") => sent' = <<"refused">>]_vars
C23_Witness ==
  /\ IsGroup(chat)
  /\ chat.member = "fails"
  /\ db # << >>
  /\ chat.from \notin db[1].bot_admins
  /\ CommandIs(text, T_tz)
  /\ sent = <<"refused">>

\* The word of a /blacklist command, lower-cased.
BlacklistWord(t) == toLowerCase(SubSeq(t, Len(T_blacklist) + 2, Len(t)))

\* C24: /blacklist with a word toggles the lower-cased word in the stored
\* blacklist: after the reply that the word was removed a read of the
\* preferences gives a blacklist without the word, and after the reply that
\* it was added one with it.
C24_BlacklistToggle ==
  [][(pc = "idle" /\ CommandIs(text', T_blacklist) /\ HasArgument(text') /\ pc' = "done")
       => /\ sent' = <<"removed">> => BlacklistWord(text') \notin getUserPrefs(db').blacklist
          /\ sent' = <<"added">> => BlacklistWord(text') \in getUserPrefs(db').blacklist]_vars

\* C25: a text that starts with '/' goes to the command handler alone: it is
\* never parsed for a date, there is no event, and unless a send or a call of
\* the table failed exactly one reply is sent.
C25_CommandOneReply ==
  [][(pc = "idle" /\ update' = "message" /\ IsCommand(text'))
       => /\ pc' \in {"done", "threw"}
          /\ results' = << >>
          /\ dateMatch' = << >>
          /\ event' = << >>
          /\ exported' = << >>
          /\ Len(sent') <= 1
          /\ failed' \cap {"send", "write", "read"} = {} => Len(sent') = 1]_vars

\* The item after the command t alone is handled on the item.
AfterCommand(item, t) ==
  saveUserPrefs(CommandEffect(Split(t), PrivateChat, TRUE, getUserPrefs(item)).save[1])

\* C26: when two commands that change the preferences of one id are handled
\* by invocations that run at the same time, the stored preferences after
\* both have completed hold both changes: they are what handling the two one
\* after the other, in one order or the other, stores.
C26_NoLostUpdate ==
  (calls # << >> /\ \A i \in 1..2 : calls[i].at = "done")
    => \/ db = AfterCommand(AfterCommand(calls[1].base, calls[1].text), calls[2].text)
       \/ db = AfterCommand(AfterCommand(calls[1].base, calls[2].text), calls[1].text)

\* The stored values of the fields the command t was not asked to change.
OtherFields(t, item) ==
  LET p == getUserPrefs(item)
  IN [timezone |-> IF CommandIs(t, T_tz) THEN << >> ELSE p.timezone,
      duration_min |-> IF CommandIs(t, T_duration) THEN 0 ELSE p.duration_min,
      bot_admins |-> IF CommandIs(t, T_admin) THEN {} ELSE p.bot_admins,
      blacklist |-> IF CommandIs(t, T_blacklist) THEN {} ELSE p.blacklist,
      whitelist |-> IF CommandIs(t, T_whitelist) THEN {} ELSE p.whitelist]

\* C27: when the read of the table fails while a command that changes the
\* preferences is handled, the fields the command was not asked to change
\* keep their stored values.
C27_ReadFailureKeepsFields ==
  [][(pc = "idle" /\ update' = "message" /\ ChangesPreferences(text')
        /\ "read" \in failed')
       => OtherFields(text', db') = OtherFields(text', db)]_vars

Sent(m) == \E i \in 1..Len(sent) : sent[i] = m

\* C28: for one event message the user gets at most one of the two outcomes,
\* the message that an event was detected or the message that creating the
\* event failed, whichever step fails.
C28_OneOutcome ==
  (update = "message" /\ ~IsCommand(text)) => ~(Sent("detected") /\ Sent("failed"))

\* The match text starts with a day and its ordinal suffix; the day written.
OrdinalMatch(m) ==
  /\ DigitRun(m.text, 1) \in 1..2
  /\ OrdinalAt(m.text, DigitRun(m.text, 1) + 1)
OrdinalDay(m) == ParseInt(m.text, 1, DigitRun(m.text, 1))

\* C29: for a day-ordinal match with the day d in 1..31 the start of the event
\* is on day d of the month and the year of the reference time, whatever the
\* length of the month, and in the month the match reports.
C29_OrdinalDayInMonth ==
  (event # << >> /\ OrdinalMatch(dateMatch[1]) /\ OrdinalDay(dateMatch[1]) \in 1..31)
    => /\ DayOf(event[1].start)
            = <<getFullYear(now), getMonth(now) + 1, OrdinalDay(dateMatch[1])>>
       /\ "month" \in DOMAIN dateMatch[1].kv
            => getMonth(event[1].start) + 1 = dateMatch[1].kv.month

\* C30: handling a text that is no command never writes to the table: with an
\* event, without a match, filtered by the blacklist or with an export that
\* fails, the stored preferences stay as they are.
C30_MessageWritesNothing ==
  [][(\/ pc = "idle" /\ update' = "message" /\ ~IsCommand(text')
      \/ pc # "idle" /\ update = "message" /\ ~IsCommand(text))
       => db' = db]_vars
C30_Witness ==
  /\ pc = "done"
  /\ update = "message"
  /\ ~IsCommand(text)
  /\ event # << >>
  /\ "export" \in failed
  /\ db # << >>
  /\ prefs # getUserPrefs(db)

====
